---- MODULE Spec2Model ----
(***************************************************************************)
(* Model of src/src/camera_handler.py: the per-camera streaming client     *)
(* (CameraConnection.run: multipart demultiplexer and event/image          *)
(* correlator), and the fleet coordinator (CameraHandler) with its shared  *)
(* detection queue.                                                        *)
(*                                                                         *)
(* Bytes and text are TLA+ strings, one character per byte.  Only          *)
(* Len, SubSeq and \o are used on them.  HiByte stands for a byte that is  *)
(* not valid UTF-8 (0xFF); every other character is ASCII.                 *)
(*                                                                         *)
(* camera_handler.py as committed is rejected by the Python compiler: the  *)
(* except clauses and the end of run (lines 286-288) and def stop (line    *)
(* 289) are indented to no enclosing level, and line 312 joins a for       *)
(* statement and an if statement with ";".  The model reads these lines by *)
(* their evident structure (the except clauses belong to the try of line   *)
(* 157, line 288 follows the while loop, stop is a method, the if of line  *)
(* 312 is in the body of the for).  Every other line is modelled as        *)
(* Python executes it; line 206 in particular is valid Python whose break  *)
(* belongs to the if on the same line.                                     *)
(***************************************************************************)
EXTENDS Integers, Sequences, FiniteSets, TLC

\* ------------------------------------------------------------------------
\* Python primitives on bytes / str
\* ------------------------------------------------------------------------

Min2(a, b) == IF a <= b THEN a ELSE b

Max2(a, b) == IF a >= b THEN a ELSE b

\* The byte s[i] (0-based), as a string of length 1.
At(s, i) == SubSeq(s, i + 1, i + 1)

\* Python's slice index normalisation: negative counts from the end, then clamp.
PyIndex(n, i) == IF i < 0 THEN Max2(n + i, 0) ELSE Min2(i, n)

\* s[a:b]
PySlice(s, a, b) ==
  LET lo == PyIndex(Len(s), a)
      hi == PyIndex(Len(s), b)
  IN  IF lo < hi THEN SubSeq(s, lo + 1, hi) ELSE ""

\* s[a:]
PySliceFrom(s, a) == PySlice(s, a, Len(s))

\* s.startswith(pat)
StartsWith(s, pat) == Len(pat) <= Len(s) /\ SubSeq(s, 1, Len(pat)) = pat

\* pat occurs in s at the 0-based index i.
Occurs(s, pat, i) == SubSeq(s, i + 1, i + Len(pat)) = pat

\* The lowest index from lo on at which pat occurs in s, else -1.
FindFrom(s, pat, lo) ==
  IF \E i \in lo..(Len(s) - Len(pat)) : Occurs(s, pat, i)
  THEN CHOOSE i \in lo..(Len(s) - Len(pat)) :
         Occurs(s, pat, i) /\ \A j \in lo..(i - 1) : ~Occurs(s, pat, j)
  ELSE -1

\* s.find(pat, start): the lowest 0-based index >= start where pat occurs, else -1.
PyFind(s, pat, start) == FindFrom(s, pat, PyIndex(Len(s), start))

\* pat in s
Contains(s, pat) == PyFind(s, pat, 0) # -1

Whitespace == {" ", "\t", "\r", "\n"}

RECURSIVE LStrip(_)
LStrip(s) ==
  IF Len(s) > 0 /\ At(s, 0) \in Whitespace THEN LStrip(SubSeq(s, 2, Len(s))) ELSE s

RECURSIVE RStrip(_)
RStrip(s) ==
  IF Len(s) > 0 /\ At(s, Len(s) - 1) \in Whitespace
  THEN RStrip(SubSeq(s, 1, Len(s) - 1)) ELSE s

\* s.strip()
Strip(s) == RStrip(LStrip(s))

\* s.split(sep): the list of pieces between the occurrences of sep.
RECURSIVE Split(_, _)
Split(s, sep) ==
  LET At_(p) == IF p = -1 THEN <<s>>
                ELSE <<PySlice(s, 0, p)>> \o Split(PySliceFrom(s, p + Len(sep)), sep)
  IN  At_(PyFind(s, sep, 0))

\* s.split(sep, 1)[1], for s that contains sep.
AfterFirst(s, sep) == PySliceFrom(s, PyFind(s, sep, 0) + Len(sep))

\* s.split(sep, 1)[0]
BeforeFirst(s, sep) == PySlice(s, 0, PyFind(s, sep, 0))

\* s.splitlines(): lines end at "\r\n", "\r" or "\n"; no empty last line.
RECURSIVE SplitLines(_)
SplitLines(s) ==
  IF s = "" THEN <<>>
  ELSE
    LET Cut(r, n) ==
          LET p == IF r = -1 THEN n ELSE IF n = -1 THEN r ELSE Min2(r, n)
              w == IF p # -1 /\ p = r /\ n = r + 1 THEN 2 ELSE 1
          IN  IF p = -1 THEN <<s>>
              ELSE <<PySlice(s, 0, p)>> \o SplitLines(PySliceFrom(s, p + w))
    IN  Cut(PyFind(s, "\r", 0), PyFind(s, "\n", 0))

UpperCase == "ABCDEFGHIJKLMNOPQRSTUVWXYZ"

LowerCase == "abcdefghijklmnopqrstuvwxyz"

LowerChar(ch) ==
  LET p == PyFind(UpperCase, ch, 0) IN IF p = -1 THEN ch ELSE At(LowerCase, p)

\* s.lower()
RECURSIVE Lower(_)
Lower(s) == IF s = "" THEN "" ELSE LowerChar(At(s, 0)) \o Lower(SubSeq(s, 2, Len(s)))

UpperChar(ch) ==
  LET p == PyFind(LowerCase, ch, 0) IN IF p = -1 THEN ch ELSE At(UpperCase, p)

\* s.upper()
RECURSIVE Upper(_)
Upper(s) == IF s = "" THEN "" ELSE UpperChar(At(s, 0)) \o Upper(SubSeq(s, 2, Len(s)))

\* s.lower().startswith(prefix): lower() keeps the length, so only the first
\* Len(prefix) characters decide.
LowerStartsWith(s, prefix) ==
  Len(prefix) <= Len(s) /\ Lower(SubSeq(s, 1, Len(prefix))) = prefix

Digits == "0123456789"

IsDigits(s) == Len(s) > 0 /\ \A i \in 0..(Len(s) - 1) : Contains(Digits, At(s, i))

RECURSIVE DigitsValue(_)
DigitsValue(s) ==
  IF s = "" THEN 0
  ELSE 10 * DigitsValue(SubSeq(s, 1, Len(s) - 1)) + PyFind(Digits, At(s, Len(s) - 1), 0)

\* int(s): an optional sign and decimal digits, with surrounding whitespace
\* allowed; anything else raises ValueError (ok = FALSE).
ParseInt(s) ==
  LET Of(t) ==
        LET sign == IF Len(t) > 0 /\ At(t, 0) \in {"+", "-"} THEN At(t, 0) ELSE ""
            d    == IF sign = "" THEN t ELSE SubSeq(t, 2, Len(t))
        IN  IF IsDigits(d)
            THEN [ok |-> TRUE, val |-> IF sign = "-" THEN 0 - DigitsValue(d) ELSE DigitsValue(d)]
            ELSE [ok |-> FALSE, val |-> 0]
  IN  Of(Strip(s))

HiByte == "~"

\* b.decode('utf-8', errors='ignore'): bytes that are not valid UTF-8 are dropped.
RECURSIVE Decode(_)
Decode(b) ==
  LET Drop(p) == IF p = -1 THEN b ELSE PySlice(b, 0, p) \o Decode(PySliceFrom(b, p + 1))
  IN  Drop(PyFind(b, HiByte, 0))

\* ------------------------------------------------------------------------
\* Values
\* ------------------------------------------------------------------------

\* Python's None / an optional value: <<>> is None, <<v>> is the value v.
None == <<>>

Some(v) == <<v>>

\* {} and d[key] = value
EmptyDict == [k \in {} |-> ""]

DictSet(d, key, value) ==
  [k \in (DOMAIN d) \cup {key} |-> IF k = key THEN value ELSE d[k]]

\* d.get(key, default)
DictGet(d, key, default) == IF key \in DOMAIN d THEN d[key] ELSE default

\* Truthiness of current_event_data: neither None nor an empty dict.
Truthy(ced) == ced # None /\ DOMAIN ced[1] # {}

CodeKey == "Events[0].EventBaseInfo.Code"

PlateKey == "Events[0].TrafficCar.PlateNumber"

\* The generic detected-text field (Object.Text, src/http_listener.py line 154).
ObjectTextKey == "Events[0].Object.Text"

TargetCode == "TrafficJunction"

HeartbeatMarker == "Heartbeat"

CRLF == "\r\n"

CRLFCRLF == "\r\n\r\n"

\* DetectionEvent.__init__
DetectionEvent(plate_number, timestamp, camera_ip, image_data, event_details) ==
  [plate_number  |-> plate_number,
   timestamp     |-> timestamp,
   camera_ip     |-> camera_ip,
   image_data    |-> image_data,
   event_details |-> IF DOMAIN event_details # {} THEN event_details ELSE EmptyDict]

\* ------------------------------------------------------------------------
\* CameraConnection._parse_event_text_part
\* ------------------------------------------------------------------------

RECURSIVE ParseLines(_, _)
ParseLines(lines, details) ==
  IF lines = <<>> THEN details
  ELSE
    LET line == Head(lines)
    IN  IF Contains(line, "=")
        THEN ParseLines(Tail(lines),
               DictSet(details, Strip(BeforeFirst(line, "=")), Strip(AfterFirst(line, "="))))
        ELSE ParseLines(Tail(lines), details)

parse_event_text_part(text_part_content) ==
  ParseLines(SplitLines(text_part_content), EmptyDict)

\* ------------------------------------------------------------------------
\* CameraConnection.run: the part headers (lines 208-215)
\* ------------------------------------------------------------------------

ContentLengthOf(header_line) ==
  LET Of(r) == IF r.ok THEN Some(r.val) ELSE None
  IN  Of(ParseInt(Strip(AfterFirst(header_line, ":"))))

RECURSIVE HeaderLoop(_, _)
HeaderLoop(lines, acc) ==
  IF lines = <<>> THEN acc
  ELSE
    LET header_line == Head(lines)
    IN  IF LowerStartsWith(header_line, "content-type:")
        THEN HeaderLoop(Tail(lines),
               [acc EXCEPT !.part_content_type = Some(Strip(AfterFirst(header_line, ":")))])
        ELSE IF LowerStartsWith(header_line, "content-length:")
        THEN HeaderLoop(Tail(lines),
               [acc EXCEPT !.part_content_length = ContentLengthOf(header_line)])
        ELSE HeaderLoop(Tail(lines), acc)

ParseHeaders(header_section_bytes) ==
  HeaderLoop(Split(Decode(header_section_bytes), CRLF),
             [part_content_type |-> None, part_content_length |-> None])

\* ------------------------------------------------------------------------
\* CameraConnection.run: what one part does to the pending slot and the
\* queue (lines 252-271)
\* ------------------------------------------------------------------------

\* The text/plain branch (lines 253-259): the new current_event_data.
TextPart(part_body) ==
  LET Event(parsed_text_event) ==
        IF DictGet(parsed_text_event, CodeKey, "") = TargetCode
        THEN Some(parsed_text_event)
        ELSE None
      Text(text_content) ==
        IF Contains(text_content, HeartbeatMarker) THEN None
        ELSE Event(parse_event_text_part(text_content))
  IN  Text(Strip(Decode(part_body)))

\* Faulty variant of the image/jpeg branch: an image with nothing pending is
\* put on the queue too.
ImagePart_Unpaired(part_body, current_event_data, camera_ip, now) ==
  IF Truthy(current_event_data)
  THEN Some(DetectionEvent(DictGet(current_event_data[1], PlateKey, "UNKNOWN_PLATE"),
                           now, camera_ip, part_body, current_event_data[1]))
  ELSE Some(DetectionEvent("UNKNOWN_PLATE", now, camera_ip, part_body, EmptyDict))

\* The image/jpeg branch (lines 261-270): the event put on the queue, if any.
\* The key of the capture time the device reports, in milliseconds.
PtsKey == "Events[0].PTS"

\* Faulty variant of the image branch: the timestamp is the capture time the
\* device reports. A missing field counts as "0.0", the epoch (-1 here, before
\* every receive time); a value float() refuses gives the receive time; a
\* value datetime cannot represent raises, and the event is lost.
ImagePart_DeviceTime(part_body, current_event_data, camera_ip, now) ==
  IF Truthy(current_event_data)
  THEN LET timestamp_str == DictGet(current_event_data[1], PtsKey, "0.0")
       IN  IF timestamp_str = "1e20" THEN None
           ELSE Some(DetectionEvent(DictGet(current_event_data[1], PlateKey, "UNKNOWN_PLATE"),
                                    IF timestamp_str = "0.0" THEN -1 ELSE now,
                                    camera_ip, part_body, current_event_data[1]))
  ELSE None

ImagePart(part_body, current_event_data, camera_ip, now) ==
  IF Truthy(current_event_data)
  THEN Some(DetectionEvent(DictGet(current_event_data[1], PlateKey, "UNKNOWN_PLATE"),
                           now, camera_ip, part_body, current_event_data[1]))
  ELSE None

\* Faulty variant of the correlator: the pending slot is not cleared after use.
ProcessPart_KeepPending(part_content_type, part_body, current_event_data, camera_ip, now) ==
  IF part_content_type = Some("text/plain")
  THEN [ced |-> TextPart(part_body), put |-> None]
  ELSE IF part_content_type = Some("image/jpeg")
  THEN [ced |-> current_event_data,
        put |-> ImagePart(part_body, current_event_data, camera_ip, now)]
  ELSE [ced |-> None, put |-> None]

\* Faulty variant of the correlator: a part of another type leaves the pending
\* slot as it is.
ProcessPart_KeepOnOther(part_content_type, part_body, current_event_data, camera_ip, now) ==
  IF part_content_type = Some("text/plain")
  THEN [ced |-> TextPart(part_body), put |-> None]
  ELSE IF part_content_type = Some("image/jpeg")
  THEN [ced |-> IF Truthy(current_event_data) THEN None ELSE current_event_data,
        put |-> ImagePart(part_body, current_event_data, camera_ip, now)]
  ELSE [ced |-> current_event_data, put |-> None]

\* [ced: the pending slot afterwards, put: the event enqueued or None]
ProcessPart(part_content_type, part_body, current_event_data, camera_ip, now) ==
  IF part_content_type = Some("text/plain")
  THEN [ced |-> TextPart(part_body), put |-> None]
  ELSE IF part_content_type = Some("image/jpeg")
  THEN [ced |-> IF Truthy(current_event_data) THEN None ELSE current_event_data,
        put |-> ImagePart(part_body, current_event_data, camera_ip, now)]
  ELSE [ced |-> None, put |-> None]

\* ------------------------------------------------------------------------
\* CameraConnection.run: one iteration of the inner demux loop
\* (while True, lines 193-275)
\* ------------------------------------------------------------------------

\* The iteration ends the loop (break) and leaves buffer and slot as they are.
NeedMoreData(buffer, current_event_data) ==
  [brk |-> TRUE, final |-> FALSE, buffer |-> buffer, ced |-> current_event_data,
   part |-> None, put |-> None]

\* Lines 252-275: the part is handled, and the loop goes on unless what
\* remains of the buffer starts with the final marker.  hfrom..bto are the
\* places in the buffer (before it was cut) of the header block and the body.
Emit(buffer, new_buffer, expected_boundary, hdr, part_body, spans, current_event_data, camera_ip, now) ==
  LET Result(r) ==
      [brk    |-> StartsWith(new_buffer, expected_boundary \o "--"),
       final  |-> FALSE,
       buffer |-> new_buffer,
       ced    |-> r.ced,
       part   |-> Some([content_type   |-> hdr.part_content_type,
                        content_length |-> hdr.part_content_length,
                        body           |-> part_body,
                        hfrom |-> spans[1], hto |-> spans[2],
                        bfrom |-> spans[3], bto |-> spans[4],
                        cut   |-> Len(buffer) - Len(new_buffer)]),
       put    |-> r.put]
  IN  Result(ProcessPart(hdr.part_content_type, part_body, current_event_data, camera_ip, now))

\* Lines 217-250, once the header block is cut out.
Body(buffer, expected_boundary, header_start_offset, end_of_headers_pos, current_event_data, camera_ip, now) ==
  LET n   == Len(buffer)
      body_start_offset == end_of_headers_pos + Len(CRLFCRLF)
      hs  == <<PyIndex(n, header_start_offset), PyIndex(n, end_of_headers_pos)>>
      Scan(hdr, next_boundary_pos) ==
        IF next_boundary_pos # -1
        THEN Emit(buffer, PySliceFrom(buffer, next_boundary_pos), expected_boundary, hdr,
                  PySlice(buffer, body_start_offset, next_boundary_pos),
                  hs \o <<PyIndex(n, body_start_offset), next_boundary_pos>>,
                  current_event_data, camera_ip, now)
        ELSE NeedMoreData(buffer, current_event_data)
      With(hdr) ==
        IF hdr.part_content_length # None
        THEN LET part_content_length == hdr.part_content_length[1]
                 body_end            == body_start_offset + part_content_length
             IN  IF n >= body_end
                 THEN Emit(buffer, PySliceFrom(buffer, body_end), expected_boundary, hdr,
                           PySlice(buffer, body_start_offset, body_end),
                           hs \o <<PyIndex(n, body_start_offset), PyIndex(n, body_end)>>,
                           current_event_data, camera_ip, now)
                 ELSE NeedMoreData(buffer, current_event_data)
        ELSE Scan(hdr, PyFind(buffer, expected_boundary, body_start_offset))
  IN  With(ParseHeaders(PySlice(buffer, header_start_offset, end_of_headers_pos)))

\* Line 205-206: with no blank line after the headers yet, the break is part of
\* the body of "if self.logger.isEnabledFor(logging.DEBUG):" and is reached
\* only when DEBUG logging is enabled.
HeadersIncompleteBreak(end_of_headers_pos, debug) == end_of_headers_pos = -1 /\ debug

\* Line 200: the buffer starts with the final marker.
AtFinalMarker(buffer, expected_boundary) == StartsWith(buffer, expected_boundary \o "--")

DemuxIter(buffer, expected_boundary, current_event_data, debug, camera_ip, now) ==
  LET Headers(header_start_offset, end_of_headers_pos) ==
        IF HeadersIncompleteBreak(end_of_headers_pos, debug)
        THEN NeedMoreData(buffer, current_event_data)
        ELSE Body(buffer, expected_boundary, header_start_offset, end_of_headers_pos,
                  current_event_data, camera_ip, now)
      From(start_boundary_pos) ==
        IF start_boundary_pos = -1 THEN NeedMoreData(buffer, current_event_data)
        ELSE IF AtFinalMarker(buffer, expected_boundary)
        THEN [brk |-> TRUE, final |-> TRUE, buffer |-> "", ced |-> None,
              part |-> None, put |-> None]
        ELSE Headers(start_boundary_pos + Len(expected_boundary) + Len(CRLF),
                     PyFind(buffer, CRLFCRLF,
                            start_boundary_pos + Len(expected_boundary) + Len(CRLF)))
  IN  From(PyFind(buffer, expected_boundary, 0))

\* Lines 193-275, the whole inner loop on one buffer: the iterations up to the
\* break, as the parts they hand to the correlator.
RECURSIVE DemuxPass(_, _, _, _, _, _)
DemuxPass(buffer, expected_boundary, current_event_data, debug, camera_ip, now) ==
  LET Go(r) ==
        LET parts == IF r.part = None THEN <<>>
                     ELSE <<[content_type |-> r.part[1].content_type,
                             body         |-> r.part[1].body]>>
        IN  IF r.brk THEN parts
            ELSE parts \o DemuxPass(r.buffer, expected_boundary, r.ced, debug, camera_ip,
                                    IF r.put = None THEN now ELSE now + 1)
  IN  Go(DemuxIter(buffer, expected_boundary, current_event_data, debug, camera_ip, now))

\* ------------------------------------------------------------------------
\* The cameras' responses: what a device serves on one connection
\* ------------------------------------------------------------------------

Marker(token) == "--" \o token

\* A part with Content-Type and Content-Length headers; CRLF ends the body.
PartCL(token, ctype, body) ==
  Marker(token) \o CRLF \o "Content-Type: " \o ctype \o CRLF
    \o "Content-Length: " \o ToString(Len(body)) \o CRLFCRLF \o body \o CRLF

\* A part without Content-Length: its body runs to the next marker.
PartScan(token, ctype, body) ==
  Marker(token) \o CRLF \o "Content-Type: " \o ctype \o CRLFCRLF \o body \o CRLF

\* A part with headers but no Content-Type.
PartUntyped(token, body) ==
  Marker(token) \o CRLF \o "Content-Length: " \o ToString(Len(body)) \o CRLFCRLF \o body \o CRLF

FinalMarker(token) == Marker(token) \o "--"

\* A part the camera did not finish: 2 of the 9 body bytes it announced.
TruncatedPart(token) ==
  Marker(token) \o CRLF \o "Content-Type: image/jpeg" \o CRLF
    \o "Content-Length: 9" \o CRLFCRLF \o "ab"

\* A part whose Content-Length is minus the length of its own boundary line
\* and header block: the slice of line 224 then starts at offset 0.
NegativePart(token) ==
  Marker(token) \o CRLF \o "Content-Length: -" \o ToString(Len(Marker(token)) + 25) \o CRLFCRLF

\* An image part whose Content-Length value is not a length; its body runs to
\* the next marker.
PartBadLength(token, value, body) ==
  Marker(token) \o CRLF \o "Content-Type: image/jpeg" \o CRLF
    \o "Content-Length: " \o value \o CRLFCRLF \o body \o CRLF

EventText(code, plate) == CodeKey \o "=" \o code \o CRLF \o PlateKey \o "=" \o plate

Jpeg == HiByte \o "JPG"

\* The kinds of fragment a stream is made of.
Fragment(token, kind) ==
  CASE kind = "T1" -> PartCL(token, "text/plain", EventText(TargetCode, "ab 1"))
    [] kind = "T2" -> PartScan(token, "text/plain", EventText(TargetCode, "CD2") \o "\nn=2")
    [] kind = "T3" -> PartCL(token, "text/plain",
                             EventText(TargetCode, "GH4") \o CRLF \o "Events[0].Name=Heartbeat")
    [] kind = "T4" -> PartCL(token, "text/plain",
                             CodeKey \o "=" \o TargetCode \o CRLF \o ObjectTextKey \o "=xy 9")
    [] kind = "T5" -> PartCL(token, "text/plain",
                             EventText(TargetCode, "IJ5") \o CRLF \o PtsKey \o "=abc")
    [] kind = "T6" -> PartCL(token, "text/plain",
                             EventText(TargetCode, "KL6") \o CRLF \o PtsKey \o "=1e20")
    [] kind = "H"  -> PartCL(token, "text/plain", HeartbeatMarker)
    [] kind = "N"  -> PartScan(token, "text/plain", EventText("VideoMotion", "EF3"))
    [] kind = "I"  -> PartCL(token, "image/jpeg", Jpeg)
    [] kind = "J"  -> PartScan(token, "image/jpeg", Jpeg \o "2")
    [] kind = "B"  -> PartCL(token, "image/jpeg", Jpeg \o CRLF \o Marker(token) \o CRLF \o "b")
    [] kind = "O"  -> PartScan(token, "application/json", "{}")
    [] kind = "U"  -> PartUntyped(token, "u")
    [] kind = "F"  -> FinalMarker(token)
    [] kind = "G"  -> "zz"
    [] kind = "P"  -> TruncatedPart(token)
    [] kind = "L"  -> NegativePart(token)
    [] kind = "M"  -> PartBadLength(token, "abc", Jpeg)
    [] kind = "K"  -> PartBadLength(token, "-1", Jpeg)

\* The chunks joined, in order.
RECURSIVE Concat(_)
Concat(chunks) ==
  IF chunks = <<>> THEN ""
  ELSE IF Len(chunks) = 1 THEN chunks[1]
  ELSE Concat(SubSeq(chunks, 1, Len(chunks) \div 2))
         \o Concat(SubSeq(chunks, Len(chunks) \div 2 + 1, Len(chunks)))

\* The response header of a multipart stream with this boundary token.
MultipartHeader(token) == "multipart/x-mixed-replace; boundary=" \o token

\* Lines 178-183: the boundary token of the response, or None.
BoundaryOf(content_type_header) ==
  IF Contains(content_type_header, "boundary=")
  THEN LET Of(boundary) == IF boundary # "" THEN Some(boundary) ELSE None
       IN  Of(Strip(Split(content_type_header, "boundary=")[2]))
  ELSE None

\* ------------------------------------------------------------------------
\* The gate alarm output: configuration and replies of the device
\* ------------------------------------------------------------------------

\* CameraConnection.__init__, lines 51-66: the gate alarm channel index of
\* camera ip. section is the [camera_gate_alarm_channels] section of the
\* configuration: None when there is none, else Some(f) with f[ip] the option
\* of the camera, None when the section has no such key (fallback '-1').
\* A value int() refuses leaves -1.
GateAlarmChannelIndex(section, ip) ==
  IF section = None
  THEN -1
  ELSE LET channel_str == IF section[1][ip] = None THEN "-1" ELSE section[1][ip][1]
           parsed      == ParseInt(channel_str)
       IN  IF parsed.ok THEN parsed.val ELSE -1

\* Lines 113-135, one poll: the reply of alarm.cgi?action=getOutState is
\* "result=<integer>", a bit per output channel. A failed request or an error
\* status (RequestException), a body of another form, a value that is not an
\* integer and a negative shift count (ValueError) all leave the poll inactive.
PollIsActive(reply, index) ==
  IF ~reply.ok
  THEN FALSE
  ELSE LET content == Strip(reply.text)
       IN  IF ~StartsWith(content, "result=")
           THEN FALSE
           ELSE LET alarm_state_value == ParseInt(Split(content, "=")[2])
                IN  IF ~alarm_state_value.ok \/ index < 0
                    THEN FALSE
                    ELSE (alarm_state_value.val \div (2 ^ index)) % 2 = 1

\* Lines 113-135, the branches that log an error: the request or its status
\* raised (lines 130-135), the body does not start with "result=" (line 127),
\* or int() refused the value (line 124).
PollFailed(reply) ==
  \/ ~reply.ok
  \/ ~StartsWith(Strip(reply.text), "result=")
  \/ ~ParseInt(Split(Strip(reply.text), "=")[2]).ok

\* ------------------------------------------------------------------------
\* State
\* ------------------------------------------------------------------------

VARIABLES
  camera_ips,          \* CameraHandler.camera_ips, one CameraConnection each
  debug_enabled,       \* logger.isEnabledFor(logging.DEBUG), set by the log level
  responses,           \* per camera: the responses it has yet to serve, each a header
                       \* and the chunks the transport delivers it in
  response,            \* per connection: the response of its current connection
  pc,                  \* per connection: where its thread is in run
  stop_event,          \* per connection: CameraConnection.stop_event
  wire,                \* per connection: the chunks iter_content has yet to yield
  expected_boundary,   \* per connection: local of run (line 187)
  buffer,              \* per connection: local of run
  current_event_data,  \* per connection: local of run, the pending slot
  wait_timeout,        \* per connection: the timeout of its stop_event.wait, in
                       \* seconds; 0 when it is not waiting
  caught,              \* per connection: what the except clause it waits in has
                       \* caught, "none" outside of them
  detection_queue,     \* CameraHandler.detection_queue (FIFO)
  clock,               \* datetime.now(), as a logical clock
  main_pc,             \* the main thread: where it is in CameraHandler's methods
  main_i,              \* the main thread: index of its loop over connections
  detections,          \* get_new_detections: its local list
  gnd_left,            \* get_new_detections: iterations left of range(max_items - 1)
  max_items,           \* get_new_detections: its parameter
  timeout,             \* get_new_detections: its parameter, in ticks
  waited,              \* get_new_detections: ticks the blocking get has waited
  trace,               \* history, per connection: the parts and final resets of its
                       \* current response
  base,                \* history, per connection: offset of buffer[0] in the response
  lap,                 \* history, per connection: parity of the iterations of the
                       \* inner loop since the last chunk
  enqueued,            \* history: every event put on the queue, in order
  consumed,            \* history: the results of get_new_detections, concatenated
  channels_section,    \* configuration: section [camera_gate_alarm_channels]
  gate_check,          \* configuration: section [gate_check], times in ticks of 0.5 s
  gate_alarm_channel_index,  \* per connection: CameraConnection.gate_alarm_channel_index
  gate_pc,             \* the thread that checks a gate: where it is
  target_ip,           \* check_gate_alarm_for_ip: its parameter (None: a direct call
                       \* of is_gate_alarm_active)
  gate_conn,           \* the connection whose is_gate_alarm_active runs, if any
  duration,            \* is_gate_alarm_active: local, in ticks
  interval,            \* is_gate_alarm_active: local, in ticks
  elapsed,             \* is_gate_alarm_active: time.monotonic() - start_time, in ticks
  poll_attempt,        \* is_gate_alarm_active: local
  current_poll_is_active,  \* is_gate_alarm_active: local
  gate_result,         \* what the gate check returned, if it has
  gate_requests,       \* history: requests.get calls of the current gate check
  gate_sleeps,         \* history: time.sleep calls of the current gate check
  gate_resp,           \* is_gate_alarm_active: resp, the reply of the poll just made
  poll_failed,         \* history: some poll of the current gate check failed
  observed             \* history: the numbers of requests and sleeps at the poll
                       \* that observed the bit set, if one has

conn_vars == <<pc, stop_event, wire, expected_boundary, buffer, current_event_data, wait_timeout, caught,
               trace, base, lap, responses, response>>

main_vars == <<main_pc, main_i, detections, gnd_left, max_items, timeout, waited, consumed>>

env_vars == <<camera_ips, debug_enabled>>

config_vars == <<channels_section, gate_check, gate_alarm_channel_index>>

gate_vars == <<gate_pc, target_ip, gate_conn, duration, interval, elapsed, poll_attempt,
               current_poll_is_active, gate_result, gate_requests, gate_sleeps, observed,
               gate_resp, poll_failed>>

vars == <<env_vars, conn_vars, main_vars, detection_queue, clock, enqueued,
          config_vars, gate_vars>>

\* The connections of the handler (CameraHandler.__init__, line 295).
Connections == {camera_ips[i] : i \in DOMAIN camera_ips}

\* The addresses a fleet is made of.
AllCameras == {"10.0.0.1", "10.0.0.2"}

\* ------------------------------------------------------------------------
\* CameraConnection.run, one action per step of the thread
\* ------------------------------------------------------------------------

\* What requests.get and raise_for_status can do (lines 169-175): a 2xx
\* response, a RequestException (refused, timed out, non-2xx status), or an
\* exception of another class.
ConnectOutcomes == {"ok", "request_exception", "http_error", "exception"}

\* Line 156, stop_event set: the while loop ends and run returns.
Exit(c) ==
  /\ pc[c] = "top"
  /\ stop_event[c]
  /\ pc' = [pc EXCEPT ![c] = "stopped"]
  /\ UNCHANGED <<env_vars, config_vars, gate_vars, wait_timeout, caught, main_vars, detection_queue, clock, enqueued, stop_event, wire,
                 expected_boundary, buffer, current_event_data, trace, base, lap,
                 responses, response>>

\* The timeouts of stop_event.wait: lines 185 and 286, and line 287.
Cooldown == 30

LongCooldown == 60

\* Faulty variant of the 2xx response: without a boundary token the stream is
\* demultiplexed all the same, with the marker "--".
Streaming_NoBoundaryCheck(c, resp) ==
  \E boundary \in {BoundaryOf(resp.header)} :
    /\ pc' = [pc EXCEPT ![c] = "read"]
    /\ wire' = [wire EXCEPT ![c] = resp.chunks]
    /\ buffer' = [buffer EXCEPT ![c] = ""]
    /\ expected_boundary' = [expected_boundary EXCEPT ![c] =
                               IF boundary = None THEN "--" ELSE "--" \o boundary[1]]
    /\ current_event_data' = [current_event_data EXCEPT ![c] = None]
    /\ trace' = [trace EXCEPT ![c] = <<>>]
    /\ base' = [base EXCEPT ![c] = 0]
    /\ UNCHANGED <<lap, wait_timeout, caught>>

\* Lines 176-187: a 2xx response.  Without a boundary token in its Content-Type
\* the attempt ends in wait(30); with one, the locals of the demux loop are set.
\* Faulty variant of the start of a connection: the buffer and the pending slot
\* are those the previous connection left.
Streaming_KeepState(c, resp) ==
  \E boundary \in {BoundaryOf(resp.header)} :
    IF boundary = None
    THEN /\ pc' = [pc EXCEPT ![c] = "wait"]
         /\ wait_timeout' = [wait_timeout EXCEPT ![c] = Cooldown]
         /\ UNCHANGED <<wire, buffer, expected_boundary, current_event_data, trace, base, lap,
                        caught>>
    ELSE /\ pc' = [pc EXCEPT ![c] = "read"]
         /\ UNCHANGED <<wait_timeout, caught, buffer, current_event_data>>
         /\ wire' = [wire EXCEPT ![c] = resp.chunks]
         /\ expected_boundary' = [expected_boundary EXCEPT ![c] = "--" \o boundary[1]]
         /\ trace' = [trace EXCEPT ![c] = <<>>]
         /\ base' = [base EXCEPT ![c] = 0]
         /\ UNCHANGED lap

Streaming(c, resp) ==
  \E boundary \in {BoundaryOf(resp.header)} :
    IF boundary = None
    THEN /\ pc' = [pc EXCEPT ![c] = "wait"]
         /\ wait_timeout' = [wait_timeout EXCEPT ![c] = Cooldown]
         /\ UNCHANGED <<wire, buffer, expected_boundary, current_event_data, trace, base, lap,
                        caught>>
    ELSE /\ pc' = [pc EXCEPT ![c] = "read"]
         /\ UNCHANGED <<wait_timeout, caught>>
         /\ wire' = [wire EXCEPT ![c] = resp.chunks]
         /\ buffer' = [buffer EXCEPT ![c] = ""]
         /\ expected_boundary' = [expected_boundary EXCEPT ![c] = "--" \o boundary[1]]
         /\ current_event_data' = [current_event_data EXCEPT ![c] = None]
         /\ trace' = [trace EXCEPT ![c] = <<>>]
         /\ base' = [base EXCEPT ![c] = 0]
         /\ UNCHANGED lap

\* Lines 156-187: one connection attempt.  The camera answers with its next
\* response, or the attempt fails.
Connect(c) ==
  /\ pc[c] = "top"
  /\ ~stop_event[c]
  /\ \E outcome \in ConnectOutcomes :
       IF outcome = "ok"
       THEN /\ responses[c] # <<>>
            /\ responses' = [responses EXCEPT ![c] = Tail(@)]
            /\ response' = [response EXCEPT ![c] = Head(responses[c])]
            /\ Streaming(c, Head(responses[c]))
       ELSE /\ pc' = [pc EXCEPT ![c] = "wait"]
            /\ wait_timeout' = [wait_timeout EXCEPT ![c] =
                                  IF outcome = "exception" THEN LongCooldown ELSE Cooldown]
            /\ caught' = [caught EXCEPT ![c] = outcome]
            /\ UNCHANGED <<wire, buffer, expected_boundary, current_event_data,
                           trace, base, lap, responses, response>>
  /\ UNCHANGED <<env_vars, config_vars, gate_vars, main_vars, detection_queue, clock, enqueued, stop_event>>

\* Lines 185, 286, 287: stop_event.wait(timeout) returns, by timeout or because
\* the stop signal was set.
WaitDone(c) ==
  /\ pc[c] = "wait"
  /\ pc' = [pc EXCEPT ![c] = "top"]
  /\ wait_timeout' = [wait_timeout EXCEPT ![c] = 0]
  /\ caught' = [caught EXCEPT ![c] = "none"]
  /\ UNCHANGED <<env_vars, config_vars, gate_vars, main_vars, detection_queue, clock, enqueued, stop_event, wire,
                 expected_boundary, buffer, current_event_data, trace, base, lap,
                 responses, response>>

\* Lines 189-191: iter_content yields the next chunk.
ReadChunk(c) ==
  /\ pc[c] = "read"
  /\ wire[c] # <<>>
  /\ wire' = [wire EXCEPT ![c] = Tail(@)]
  /\ IF stop_event[c]
     THEN /\ pc' = [pc EXCEPT ![c] = "top"]
          /\ UNCHANGED buffer
     ELSE /\ pc' = [pc EXCEPT ![c] = "demux"]
          /\ buffer' = [buffer EXCEPT ![c] = @ \o Head(wire[c])]
  /\ UNCHANGED <<env_vars, config_vars, gate_vars, wait_timeout, caught, main_vars, detection_queue, clock, enqueued, stop_event,
                 expected_boundary, current_event_data, trace, base, lap,
                 responses, response>>

\* Faulty variant of the stream end: the thread returns when the server closes
\* the stream.
StreamEnd_Return(c) ==
  /\ pc[c] = "read"
  /\ wire[c] = <<>>
  /\ pc' = [pc EXCEPT ![c] = "stopped"]
  /\ UNCHANGED <<env_vars, config_vars, gate_vars, wait_timeout, caught, main_vars, detection_queue, clock, enqueued, stop_event, wire,
                 expected_boundary, buffer, current_event_data, trace, base, lap,
                 responses, response>>

\* Lines 189, 284-285: the server closed the stream; back to the while condition.
StreamEnd(c) ==
  /\ pc[c] = "read"
  /\ wire[c] = <<>>
  /\ pc' = [pc EXCEPT ![c] = "top"]
  /\ UNCHANGED <<env_vars, config_vars, gate_vars, wait_timeout, caught, main_vars, detection_queue, clock, enqueued, stop_event, wire,
                 expected_boundary, buffer, current_event_data, trace, base, lap,
                 responses, response>>

\* Lines 189, 286: iter_content raises (connection lost, read timeout).
ReadError(c) ==
  /\ pc[c] = "read"
  /\ pc' = [pc EXCEPT ![c] = "wait"]
  /\ wait_timeout' = [wait_timeout EXCEPT ![c] = Cooldown]
  /\ caught' = [caught EXCEPT ![c] = "request_exception"]
  /\ UNCHANGED <<env_vars, config_vars, gate_vars, main_vars, detection_queue, clock, enqueued, stop_event, wire,
                 expected_boundary, buffer, current_event_data, trace, base, lap,
                 responses, response>>

\* What lines 253-258 find in the body of a text part: the mapping parsed from
\* it (line 256), whether its event code is that of the target class (line
\* 258), and whether it is taken for a heartbeat (line 254).
TextFacts(part_body) ==
  LET Of(text_content) ==
        LET With(parsed_text_event) ==
              [text       |-> Some(parsed_text_event),
               recognized |-> DictGet(parsed_text_event, CodeKey, "") = TargetCode,
               heartbeat  |-> Contains(text_content, HeartbeatMarker)]
        IN  With(parse_event_text_part(text_content))
  IN  Of(Strip(Decode(part_body)))

\* The history of a response keeps its first MaxTrace entries.
MaxTrace == 8

\* The history entry of one iteration of the demux loop: a final reset, or the
\* part handed over, where it lay in the response, the pending slot after it
\* and the event it put on the queue; for a text part also the mapping parsed
\* from its body, whether its event code is recognized and whether it is taken
\* for a heartbeat.
TraceEntry(r, off) ==
  IF r.final THEN <<[kind |-> "final"]>>
  ELSE IF r.part = None THEN <<>>
  ELSE LET Entry(facts) ==
             <<[kind           |-> "part",
                content_type   |-> r.part[1].content_type,
                content_length |-> r.part[1].content_length,
                body           |-> r.part[1].body,
                hfrom |-> off + r.part[1].hfrom, hto |-> off + r.part[1].hto,
                bfrom |-> off + r.part[1].bfrom, bto |-> off + r.part[1].bto,
                ced            |-> r.ced,
                put            |-> r.put,
                text           |-> facts.text,
                recognized     |-> facts.recognized,
                heartbeat      |-> facts.heartbeat]>>
       IN  Entry(IF r.part[1].content_type = Some("text/plain")
                 THEN TextFacts(r.part[1].body)
                 ELSE [text |-> None, recognized |-> FALSE, heartbeat |-> FALSE])

\* Faulty variant of the iteration: the pending slot is one for all connections.
DemuxStep_SharedSlot(c) ==
  /\ pc[c] = "demux"
  /\ \E r \in {DemuxIter(buffer[c], expected_boundary[c], current_event_data[c],
                         debug_enabled, c, clock)} :
         /\ buffer' = [buffer EXCEPT ![c] = r.buffer]
         /\ current_event_data' = [d \in Connections |-> r.ced]
         /\ trace' = [trace EXCEPT ![c] = IF Len(@) < MaxTrace
                                           THEN @ \o TraceEntry(r, base[c]) ELSE @]
         /\ base' = [base EXCEPT ![c] = @ + (Len(buffer[c]) - Len(r.buffer))]
         /\ lap' = [lap EXCEPT ![c] = IF r.brk THEN 0 ELSE 1 - @]
         /\ IF r.put # None
            THEN /\ detection_queue' = Append(detection_queue, r.put[1])
                 /\ enqueued' = Append(enqueued, r.put[1])
                 /\ clock' = clock + 1
            ELSE UNCHANGED <<detection_queue, enqueued, clock>>
         /\ pc' = [pc EXCEPT ![c] = IF ~r.brk THEN "demux"
                                    ELSE IF stop_event[c] THEN "top" ELSE "read"]
  /\ UNCHANGED <<env_vars, config_vars, gate_vars, wait_timeout, caught, main_vars, stop_event, wire, expected_boundary, responses, response>>

\* Lines 193-280: one iteration of the inner loop; on break, the stop check of
\* line 278 and back to iter_content.
DemuxStep(c) ==
  /\ pc[c] = "demux"
  /\ \E r \in {DemuxIter(buffer[c], expected_boundary[c], current_event_data[c],
                         debug_enabled, c, clock)} :
         /\ buffer' = [buffer EXCEPT ![c] = r.buffer]
         /\ current_event_data' = [current_event_data EXCEPT ![c] = r.ced]
         /\ trace' = [trace EXCEPT ![c] = IF Len(@) < MaxTrace
                                           THEN @ \o TraceEntry(r, base[c]) ELSE @]
         /\ base' = [base EXCEPT ![c] = @ + (Len(buffer[c]) - Len(r.buffer))]
         /\ lap' = [lap EXCEPT ![c] = IF r.brk THEN 0 ELSE 1 - @]
         /\ IF r.put # None
            THEN /\ detection_queue' = Append(detection_queue, r.put[1])
                 /\ enqueued' = Append(enqueued, r.put[1])
                 /\ clock' = clock + 1
            ELSE UNCHANGED <<detection_queue, enqueued, clock>>
         /\ pc' = [pc EXCEPT ![c] = IF ~r.brk THEN "demux"
                                    ELSE IF stop_event[c] THEN "top" ELSE "read"]
  /\ UNCHANGED <<env_vars, config_vars, gate_vars, wait_timeout, caught, main_vars, stop_event, wire, expected_boundary, responses, response>>

\* ------------------------------------------------------------------------
\* CameraHandler, as the main thread calls it (src/src/main.py, run_main_loop:
\* start_monitoring, get_new_detections in a loop, stop_monitoring at the end)
\* ------------------------------------------------------------------------

MaxItems == 2

MaxTimeout == 1

\* start_monitoring (lines 304-307): conn.start() for the next connection.
StartMonitoring ==
  /\ main_pc = "new"
  /\ pc' = [pc EXCEPT ![camera_ips[main_i]] = "top"]
  /\ IF main_i < Len(camera_ips)
     THEN /\ main_i' = main_i + 1
          /\ UNCHANGED main_pc
     ELSE /\ main_i' = 1
          /\ main_pc' = "idle"
  /\ UNCHANGED <<env_vars, config_vars, gate_vars, wait_timeout, caught, detection_queue, clock, enqueued, detections, gnd_left, consumed,
                 max_items, timeout, waited,
                 stop_event, wire, expected_boundary, buffer, current_event_data, trace, base, lap,
                 responses, response>>

\* get_new_detections (lines 315-316): the call, with its arguments.
GetCall ==
  /\ main_pc = "idle"
  /\ max_items' \in 0..MaxItems
  /\ timeout' \in -1..MaxTimeout
  /\ waited' = 0
  /\ detections' = <<>>
  /\ main_pc' = "first"
  /\ UNCHANGED <<env_vars, config_vars, gate_vars, conn_vars, detection_queue, clock, enqueued, main_i, gnd_left,
                 consumed>>

\* Faulty variant of the first get: the newest item is taken, not the oldest.
GetFirst_Last ==
  /\ main_pc = "first"
  /\ timeout >= 0
  /\ detection_queue # <<>>
  /\ detections' = <<detection_queue[Len(detection_queue)]>>
  /\ detection_queue' = SubSeq(detection_queue, 1, Len(detection_queue) - 1)
  /\ gnd_left' = Max2(max_items - 1, 0)
  /\ main_pc' = "more"
  /\ UNCHANGED <<env_vars, config_vars, gate_vars, conn_vars, clock, enqueued, main_i, consumed,
                 max_items, timeout, waited>>

\* get_new_detections (line 317): Queue.get(block=True, timeout) refuses a
\* negative timeout with ValueError before it looks at the queue; line 318
\* catches Empty only, so the exception leaves the call.  run_main_loop
\* (src/src/main.py lines 164-170) catches it and goes on to stop_monitoring.
GetRaise ==
  /\ main_pc = "first"
  /\ timeout < 0
  /\ main_pc' = "raised"
  /\ max_items' = 0
  /\ timeout' = 0
  /\ waited' = 0
  /\ UNCHANGED <<env_vars, config_vars, gate_vars, conn_vars, detection_queue, clock, enqueued, main_i,
                 detections, gnd_left, consumed>>

\* get_new_detections (line 317): the blocking get finds an item, at once or
\* while it waits, and the item is appended to the list.
GetFirst ==
  /\ main_pc = "first"
  /\ timeout >= 0
  /\ detection_queue # <<>>
  /\ detections' = <<Head(detection_queue)>>
  /\ detection_queue' = Tail(detection_queue)
  /\ gnd_left' = Max2(max_items - 1, 0)
  /\ main_pc' = "more"
  /\ UNCHANGED <<env_vars, config_vars, gate_vars, conn_vars, clock, enqueued, main_i, consumed,
                 max_items, timeout, waited>>

\* Faulty variant of the blocking get: it waits on after the timeout.
GetBlock_Unbounded ==
  /\ main_pc = "first"
  /\ timeout >= 0
  /\ detection_queue = <<>>
  /\ waited <= timeout
  /\ waited' = waited + 1
  /\ UNCHANGED <<env_vars, config_vars, gate_vars, conn_vars, detection_queue, clock, enqueued, main_pc, main_i,
                 detections, gnd_left, max_items, timeout, consumed>>

\* get_new_detections (line 317): the blocking get waits one more tick on the
\* empty queue, its timeout not yet over.
GetBlock ==
  /\ main_pc = "first"
  /\ timeout >= 0
  /\ detection_queue = <<>>
  /\ waited < timeout
  /\ waited' = waited + 1
  /\ UNCHANGED <<env_vars, config_vars, gate_vars, conn_vars, detection_queue, clock, enqueued, main_pc, main_i,
                 detections, gnd_left, max_items, timeout, consumed>>

\* get_new_detections (lines 317-318): the queue was empty for the whole
\* timeout; the get raises Empty and the empty list is returned.
GetEmpty ==
  /\ main_pc = "first"
  /\ timeout >= 0
  /\ detection_queue = <<>>
  /\ waited >= timeout
  /\ main_pc' = "idle"
  /\ max_items' = 0
  /\ timeout' = 0
  /\ waited' = 0
  /\ UNCHANGED <<env_vars, config_vars, gate_vars, conn_vars, detection_queue, clock, enqueued, main_i,
                 detections, gnd_left, consumed>>

\* Faulty variant of the non-blocking get: the item is read but left on the queue.
GetMore_Peek ==
  /\ main_pc = "more"
  /\ gnd_left > 0
  /\ detection_queue # <<>>
  /\ detections' = Append(detections, Head(detection_queue))
  /\ gnd_left' = gnd_left - 1
  /\ UNCHANGED <<env_vars, config_vars, gate_vars, conn_vars, clock, enqueued, main_pc, main_i, consumed,
                 max_items, timeout, waited, detection_queue>>

\* get_new_detections (lines 319-321): one iteration of the loop, get(block=False).
GetMore ==
  /\ main_pc = "more"
  /\ gnd_left > 0
  /\ detection_queue # <<>>
  /\ detections' = Append(detections, Head(detection_queue))
  /\ detection_queue' = Tail(detection_queue)
  /\ gnd_left' = gnd_left - 1
  /\ UNCHANGED <<env_vars, config_vars, gate_vars, conn_vars, clock, enqueued, main_pc, main_i, consumed,
                 max_items, timeout, waited>>

\* get_new_detections (lines 319-322): the loop is over, or Empty broke it;
\* the list is returned.
GetReturn ==
  /\ main_pc = "more"
  /\ gnd_left = 0 \/ detection_queue = <<>>
  /\ consumed' = consumed \o detections
  /\ detections' = <<>>
  /\ gnd_left' = 0
  /\ max_items' = 0
  /\ timeout' = 0
  /\ waited' = 0
  /\ main_pc' = "idle"
  /\ UNCHANGED <<env_vars, config_vars, gate_vars, conn_vars, clock, enqueued, detection_queue, main_i>>

\* Faulty variant of stop_monitoring: all in one loop, each connection joined
\* right after its stop signal, before the next is signalled.
StopSignal_ThenJoin ==
  /\ main_pc \in {"idle", "raised", "stopping"}
  /\ stop_event' = [stop_event EXCEPT ![camera_ips[main_i]] = TRUE]
  /\ main_i' = 1
  /\ main_pc' = "joining"
  /\ UNCHANGED <<env_vars, config_vars, gate_vars, wait_timeout, caught, detection_queue, clock, enqueued, detections, gnd_left, consumed,
                 max_items, timeout, waited,
                 pc, wire, expected_boundary, buffer, current_event_data, trace, base, lap,
                 responses, response>>

\* stop_monitoring (line 311): conn.stop() for the next connection. main.py
\* calls stop_monitoring from the finally block of run_main_loop, and once
\* more from the finally block of __main__ (states "stopping2", "joining2",
\* "done2"); when run_main_loop raises before it has called start_monitoring,
\* the call of __main__ is the only one and the threads were never started.
StopSignal ==
  /\ \/ main_pc \in {"idle", "raised", "stopping"}
     \/ main_pc = "new" /\ main_i = 1
     \/ main_pc \in {"done", "stopping2"}
  /\ stop_event' = [stop_event EXCEPT ![camera_ips[main_i]] = TRUE]
  /\ IF main_i < Len(camera_ips)
     THEN /\ main_i' = main_i + 1
          /\ main_pc' = IF main_pc \in {"done", "stopping2"} THEN "stopping2" ELSE "stopping"
     ELSE /\ main_i' = 1
          /\ main_pc' = IF main_pc \in {"done", "stopping2"} THEN "joining2" ELSE "joining"
  /\ UNCHANGED <<env_vars, config_vars, gate_vars, wait_timeout, caught, detection_queue, clock, enqueued, detections, gnd_left, consumed,
                 max_items, timeout, waited,
                 pc, wire, expected_boundary, buffer, current_event_data, trace, base, lap,
                 responses, response>>

\* Faulty variant of the join: without a timeout, it returns only when the
\* thread has ended.
Join_NoTimeout ==
  /\ main_pc = "joining"
  /\ pc[camera_ips[main_i]] = "stopped"
  /\ IF main_i < Len(camera_ips)
     THEN /\ main_i' = main_i + 1
          /\ UNCHANGED main_pc
     ELSE /\ main_i' = 1
          /\ main_pc' = "done"
  /\ UNCHANGED <<env_vars, config_vars, gate_vars, conn_vars, detection_queue, clock, enqueued, detections,
                 gnd_left, max_items, timeout, waited, consumed>>

\* stop_monitoring (line 312): conn.join(timeout=10) returns, because the thread
\* has ended or because the timeout has passed; on a thread that was never
\* started, Thread.join raises RuntimeError and stop_monitoring ends with it.
Join ==
  /\ main_pc \in {"joining", "joining2"}
  /\ IF pc[camera_ips[main_i]] = "new"
     THEN /\ main_i' = 1
          /\ main_pc' = "join_raised"
     ELSE IF main_i < Len(camera_ips)
     THEN /\ main_i' = main_i + 1
          /\ UNCHANGED main_pc
     ELSE /\ main_i' = 1
          /\ main_pc' = IF main_pc = "joining2" THEN "done2" ELSE "done"
  /\ UNCHANGED <<env_vars, config_vars, gate_vars, conn_vars, detection_queue, clock, enqueued, detections,
                 gnd_left, max_items, timeout, waited, consumed>>

\* ------------------------------------------------------------------------
\* Inputs: the responses the cameras serve, and how the transport cuts them
\* into chunks
\* ------------------------------------------------------------------------

MaxParts == 3

Token == "X"

Kinds == {"T1", "T2", "H", "I", "F"}

KindSeqs(n) == UNION {[1..k -> Kinds] : k \in 1..n}

Fragments(ks) == [i \in 1..Len(ks) |-> Fragment(Token, ks[i])]

\* The stream in one chunk, or one chunk per fragment.
WholeScript(stream) == [header |-> MultipartHeader(Token), chunks |-> <<stream>>]

FragmentScript(ks) == [header |-> MultipartHeader(Token), chunks |-> Fragments(ks)]

\* The stream one byte per chunk, or cut in two at k.
ByteScript(stream) ==
  [header |-> MultipartHeader(Token),
   chunks |-> [i \in 1..Len(stream) |-> SubSeq(stream, i, i)]]

SplitScript(stream, k) ==
  [header |-> MultipartHeader(Token),
   chunks |-> <<SubSeq(stream, 1, k), SubSeq(stream, k + 1, Len(stream))>>]

\* Streams with the rarer fragments: a part the camera cut short, an event of
\* another class, an event of the target class with the word Heartbeat in one
\* of its fields, an event with the generic detected-text field only, a part
\* without Content-Type, bytes that are no part.
RareSeqs ==
  {<<"P", "F", "G">>, <<"P", "F", "I">>, <<"N", "I">>, <<"T1", "N", "I">>,
   <<"O", "I">>, <<"T1", "O", "I">>, <<"T1", "I", "O">>, <<"U", "I">>, <<"T1", "U", "I">>,
   <<"T2", "J", "J", "F">>, <<"G", "F", "T1", "I">>,
   <<"T3", "I">>, <<"T1", "T3", "I">>, <<"T3", "T1", "I">>, <<"T4", "I">>,
   <<"T1", "M", "F">>, <<"M", "I">>, <<"T1", "K", "F">>, <<"K", "I">>,
   <<"G", "T1", "I">>, <<"G", "T2", "I", "F">>, <<"G", "H", "T1", "I">>,
   <<"T5", "I">>, <<"T6", "I">>, <<"T6", "I", "T1", "I">>,
   <<"T1", "B">>, <<"B", "T1", "I">>}

StreamSeqs == KindSeqs(MaxParts) \cup RareSeqs

PartScripts ==
  {WholeScript(Concat(Fragments(ks))) : ks \in StreamSeqs}
    \cup {FragmentScript(ks) : ks \in StreamSeqs}

\* The stream of the example of spec section 8, and the same with the event
\* code under the key the cameras use.
ExampleStream ==
  "--X\r\nContent-Type: text/plain\r\nContent-Length: 20\r\n\r\nCode=TrafficJunction\r\n"
    \o "--X\r\nContent-Type: image/jpeg\r\nContent-Length: 4\r\n\r\n"
    \o HiByte \o HiByte \o HiByte \o HiByte \o "--X--"

KeyedStream ==
  "--X\r\nContent-Type: text/plain\r\nContent-Length: 44\r\n\r\n"
    \o CodeKey \o "=" \o TargetCode \o CRLF
    \o "--X\r\nContent-Type: image/jpeg\r\nContent-Length: 4\r\n\r\n"
    \o HiByte \o HiByte \o HiByte \o HiByte \o "--X--"

ByteStreams == {ExampleStream, KeyedStream}

ByteScripts ==
  {WholeScript(s) : s \in ByteStreams}
    \cup {ByteScript(s) : s \in ByteStreams}
    \cup UNION {{SplitScript(s, k) : k \in 1..(Len(s) - 1)} : s \in ByteStreams}

\* A response whose Content-Type names no boundary.
PlainScript == [header |-> "text/html", chunks |-> <<"zz">>]

\* One event, one fragment per chunk.
PairFeed == <<FragmentScript(<<"T1", "I">>)>>

\* A camera that first answers without a boundary, then with one event.
RetryFeed == <<PlainScript, FragmentScript(<<"T1", "I">>)>>

\* A camera whose first connection ends after a recognized text part and the
\* start of an image part, and whose second connection starts with an image part.
CutFeed == <<FragmentScript(<<"T1", "P">>), FragmentScript(<<"I">>)>>

\* A camera that serves a part with a negative Content-Length.
NegativeFeed == <<WholeScript(Fragment(Token, "L"))>>

FairFeeds == {PairFeed, RetryFeed, NegativeFeed}

\* What a camera of the fleet serves on its successive connections.
FleetFeeds ==
  {PairFeed,
   <<WholeScript(Concat(Fragments(<<"T2", "I", "T1", "I">>)))>>,
   RetryFeed,
   CutFeed}

\* ------------------------------------------------------------------------
\* The gate check: check_gate_alarm_for_ip and is_gate_alarm_active, run by
\* a thread of its own; one action per step between two blocking calls
\* ------------------------------------------------------------------------

\* Time is counted in ticks of 0.5 s: the defaults of lines 89, 90.
DefaultDuration == 4

DefaultInterval == 1

\* A poll takes up to MaxPollTicks ticks (requests.get has timeout=5), and a
\* gate check is followed for MaxPolls polls.
MaxPollTicks == 1

MaxPolls == 4

\* What the device answers to a poll: a failed request or an error status
\* (ok = FALSE), or a body.
GateReplies ==
  {[ok |-> FALSE, text |-> ""],
   [ok |-> TRUE, text |-> "result=0"],
   [ok |-> TRUE, text |-> "result=1"],
   [ok |-> TRUE, text |-> "result=2" \o CRLF],
   [ok |-> TRUE, text |-> "result=3"],
   [ok |-> TRUE, text |-> "result="],
   [ok |-> TRUE, text |-> "result=on"],
   [ok |-> TRUE, text |-> "result=1=0"],
   [ok |-> TRUE, text |-> "Error"]}

\* Thread.is_alive(): started and run has not returned.
IsAlive(c) == pc[c] \notin {"new", "stopped"}

\* The gate thread is not inside a gate check.
GateFree == gate_pc \in {"idle", "returned", "raised"}

\* A gate check returns at once, without a poll.
GateReturnsAtOnce(ip, conn, result) ==
  /\ gate_pc' = "returned"
  /\ target_ip' = ip
  /\ gate_conn' = conn
  /\ gate_result' = Some(result)
  /\ duration' = 0
  /\ interval' = 0
  /\ elapsed' = 0
  /\ poll_attempt' = 0
  /\ current_poll_is_active' = FALSE
  /\ gate_requests' = 0
  /\ gate_sleeps' = 0
  /\ observed' = None
  /\ gate_resp' = None
  /\ poll_failed' = FALSE

\* Faulty variant of the entry: the check of the channel index is missing.
IsGateAlarmActive_NoSentinel(ip, c) ==
  /\ gate_pc' = "loop"
  /\ target_ip' = ip
  /\ gate_conn' = Some(c)
  /\ gate_result' = None
  /\ duration' = IF gate_check = None \/ gate_check[1].duration = None
                 THEN DefaultDuration ELSE gate_check[1].duration[1]
  /\ interval' = IF gate_check = None \/ gate_check[1].interval = None
                 THEN DefaultInterval ELSE gate_check[1].interval[1]
  /\ elapsed' = 0
  /\ poll_attempt' = 0
  /\ current_poll_is_active' = FALSE
  /\ gate_requests' = 0
  /\ gate_sleeps' = 0
  /\ observed' = None
  /\ gate_resp' = None
  /\ poll_failed' = FALSE

\* is_gate_alarm_active of connection c, lines 85-106: with a negative channel
\* index return False; else read duration and interval from [gate_check]
\* (defaults for a missing section or key), take start_time and enter the loop.
IsGateAlarmActive(ip, c) ==
  IF gate_alarm_channel_index[c] < 0
  THEN GateReturnsAtOnce(ip, Some(c), FALSE)
  ELSE IsGateAlarmActive_NoSentinel(ip, c)

\* conn.is_gate_alarm_active() called on a connection.
CallIsGateAlarmActive ==
  /\ GateFree
  /\ \E c \in Connections : IsGateAlarmActive(None, c)
  /\ UNCHANGED <<env_vars, config_vars, conn_vars, main_vars, detection_queue, clock, enqueued>>

\* Faulty variant of check_gate_alarm_for_ip: the thread of the connection is
\* not asked whether it is alive.
CheckGateAlarmForIp_NoAliveCheck ==
  /\ GateFree
  /\ \E target \in AllCameras :
       IF target \in Connections
       THEN IsGateAlarmActive(Some(target), target)
       ELSE GateReturnsAtOnce(Some(target), None, FALSE)
  /\ UNCHANGED <<env_vars, config_vars, conn_vars, main_vars, detection_queue, clock, enqueued>>

\* check_gate_alarm_for_ip(target), lines 297-302: the connection of that
\* address if there is one and its thread is alive, else False.
CheckGateAlarmForIp ==
  /\ GateFree
  /\ \E target \in AllCameras :
       IF target \in Connections
       THEN IF IsAlive(target)
            THEN IsGateAlarmActive(Some(target), target)
            ELSE GateReturnsAtOnce(Some(target), None, FALSE)
       ELSE GateReturnsAtOnce(Some(target), None, FALSE)
  /\ UNCHANGED <<env_vars, config_vars, conn_vars, main_vars, detection_queue, clock, enqueued>>

\* Faulty variant of the poll: a failed poll ends the gate check.
GatePoll_AbortOnFailure ==
  /\ gate_pc = "loop"
  /\ elapsed < duration
  /\ poll_attempt < MaxPolls
  /\ \E reply \in GateReplies, took \in 0..MaxPollTicks :
       LET active == PollIsActive(reply, gate_alarm_channel_index[gate_conn[1]])
       IN  /\ current_poll_is_active' = active
           /\ elapsed' = elapsed + took
           /\ observed' = IF active
                          THEN Some([requests |-> gate_requests + 1, sleeps |-> gate_sleeps])
                          ELSE observed
           /\ gate_resp' = Some(reply)
           /\ poll_failed' = (poll_failed \/ PollFailed(reply))
           /\ gate_pc' = IF PollFailed(reply) THEN "returned" ELSE "polled"
           /\ gate_result' = IF PollFailed(reply) THEN Some(FALSE) ELSE gate_result
  /\ poll_attempt' = poll_attempt + 1
  /\ gate_requests' = gate_requests + 1
  /\ UNCHANGED <<env_vars, config_vars, conn_vars, main_vars, detection_queue, clock, enqueued,
                 target_ip, gate_conn, duration, interval, gate_sleeps>>

\* Lines 108-135: the loop condition holds, one poll: requests.get and the
\* parsing of its reply.
GatePoll ==
  /\ gate_pc = "loop"
  /\ elapsed < duration
  /\ poll_attempt < MaxPolls
  /\ \E reply \in GateReplies, took \in 0..MaxPollTicks :
       LET active == PollIsActive(reply, gate_alarm_channel_index[gate_conn[1]])
       IN  /\ current_poll_is_active' = active
           /\ elapsed' = elapsed + took
           /\ observed' = IF active
                          THEN Some([requests |-> gate_requests + 1, sleeps |-> gate_sleeps])
                          ELSE observed
           /\ gate_resp' = Some(reply)
           /\ poll_failed' = (poll_failed \/ PollFailed(reply))
  /\ poll_attempt' = poll_attempt + 1
  /\ gate_requests' = gate_requests + 1
  /\ gate_pc' = "polled"
  /\ UNCHANGED <<env_vars, config_vars, conn_vars, main_vars, detection_queue, clock, enqueued,
                 target_ip, gate_conn, duration, interval, gate_result, gate_sleeps>>

\* Lines 138-140: the poll was active, return True.
GateReturnTrue ==
  /\ gate_pc = "polled"
  /\ current_poll_is_active
  /\ gate_pc' = "returned"
  /\ gate_result' = Some(TRUE)
  /\ gate_resp' = None
  /\ UNCHANGED <<env_vars, config_vars, conn_vars, main_vars, detection_queue, clock, enqueued,
                 target_ip, gate_conn, duration, interval, elapsed, poll_attempt,
                 current_poll_is_active, gate_requests, gate_sleeps, observed, poll_failed>>

\* Faulty variant of the step after a poll: it sleeps whatever the poll saw.
GateInactive_Regardless ==
  /\ gate_pc = "polled"
  /\ IF elapsed + interval < duration
     THEN IF interval < 0
          THEN /\ gate_pc' = "raised"
               /\ UNCHANGED <<elapsed, gate_sleeps>>
          ELSE /\ gate_pc' = "loop"
               /\ elapsed' = elapsed + interval
               /\ gate_sleeps' = gate_sleeps + 1
     ELSE /\ gate_pc' = "loop"
          /\ UNCHANGED <<elapsed, gate_sleeps>>
  /\ gate_resp' = None
  /\ UNCHANGED <<env_vars, config_vars, conn_vars, main_vars, detection_queue, clock, enqueued,
                 target_ip, gate_conn, duration, interval, poll_attempt,
                 current_poll_is_active, gate_result, gate_requests, observed, poll_failed>>

\* Lines 142-149: the poll was inactive. If a whole interval fits in what is
\* left of the window, time.sleep(interval), which raises ValueError for a
\* negative interval; else straight back to the loop condition.
GateInactive ==
  /\ ~current_poll_is_active
  /\ GateInactive_Regardless

\* Lines 108, 151, 152: the window is over, return False.
GateExpire ==
  /\ gate_pc = "loop"
  /\ elapsed >= duration
  /\ gate_pc' = "returned"
  /\ gate_result' = Some(FALSE)
  /\ UNCHANGED <<env_vars, config_vars, conn_vars, main_vars, detection_queue, clock, enqueued,
                 target_ip, gate_conn, duration, interval, elapsed, poll_attempt,
                 current_poll_is_active, gate_requests, gate_sleeps, observed, gate_resp,
                 poll_failed>>

\* The values of a camera's key in [camera_gate_alarm_channels]: none,
\* integers, and values int() refuses.
ChannelValues ==
  {None, Some("0"), Some("1"), Some(" 1 "), Some("-2"), Some("abc"), Some("2.5")}

\* The [gate_check] sections: none, and sections with or without each key.
GateChecks ==
  {None,
   Some([duration |-> Some(3), interval |-> Some(2)]),
   Some([duration |-> Some(0), interval |-> None]),
   Some([duration |-> None, interval |-> Some(-1)])}

\* A configuration without the two gate sections.
NoGateConfig ==
  /\ channels_section = None
  /\ gate_check = None

\* ------------------------------------------------------------------------
\* Specifications
\* ------------------------------------------------------------------------

\* CameraHandler.__init__ and CameraConnection.__init__ have run.
Constructed ==
  /\ pc = [c \in Connections |-> "new"]
  /\ stop_event = [c \in Connections |-> FALSE]
  /\ wire = [c \in Connections |-> <<>>]
  /\ expected_boundary = [c \in Connections |-> ""]
  /\ buffer = [c \in Connections |-> ""]
  /\ current_event_data = [c \in Connections |-> None]
  /\ wait_timeout = [c \in Connections |-> 0]
  /\ caught = [c \in Connections |-> "none"]
  /\ response = [c \in Connections |-> PlainScript]
  /\ trace = [c \in Connections |-> <<>>]
  /\ base = [c \in Connections |-> 0]
  /\ lap = [c \in Connections |-> 0]
  /\ detection_queue = <<>>
  /\ clock = 0
  /\ main_pc = "new"
  /\ main_i = 1
  /\ detections = <<>>
  /\ gnd_left = 0
  /\ max_items = 0
  /\ timeout = 0
  /\ waited = 0
  /\ enqueued = <<>>
  /\ consumed = <<>>
  /\ gate_alarm_channel_index =
       [c \in Connections |-> GateAlarmChannelIndex(channels_section, c)]
  /\ gate_pc = "idle"
  /\ target_ip = None
  /\ gate_conn = None
  /\ duration = 0
  /\ interval = 0
  /\ elapsed = 0
  /\ poll_attempt = 0
  /\ current_poll_is_active = FALSE
  /\ gate_result = None
  /\ gate_requests = 0
  /\ gate_sleeps = 0
  /\ observed = None
  /\ gate_resp = None
  /\ poll_failed = FALSE

\* The fleet: one or two cameras, the main thread starting, draining and
\* stopping them, at the default log level (INFO, src/src/main.py line 186).
\* The first camera serves any of the feeds, a second one the single event.
Init ==
  /\ camera_ips \in {<<"10.0.0.1">>, <<"10.0.0.1", "10.0.0.2">>}
  /\ debug_enabled = FALSE
  /\ responses \in [Connections -> FleetFeeds]
  /\ \A i \in 2..Len(camera_ips) : responses[camera_ips[i]] = PairFeed
  /\ NoGateConfig
  /\ Constructed

Next ==
  \/ StartMonitoring
  \/ GetCall
  \/ GetRaise
  \/ GetFirst
  \/ GetBlock
  \/ GetEmpty
  \/ GetMore
  \/ GetReturn
  \/ StopSignal
  \/ Join
  \/ \E c \in Connections : Exit(c)
  \/ \E c \in Connections : Connect(c)
  \/ \E c \in Connections : WaitDone(c)
  \/ \E c \in Connections : ReadChunk(c)
  \/ \E c \in Connections : StreamEnd(c)
  \/ \E c \in Connections : ReadError(c)
  \/ \E c \in Connections : DemuxStep(c)

Spec == Init /\ [][Next]_vars

\* One camera and its connection thread, over every stream of up to MaxParts
\* fragments and the byte-wise deliveries of the example streams.
InitStream ==
  /\ camera_ips = <<"10.0.0.1">>
  /\ \/ debug_enabled = FALSE /\ responses \in [Connections -> {<<r>> : r \in PartScripts}]
     \/ debug_enabled \in BOOLEAN /\ responses \in [Connections -> {<<r>> : r \in ByteScripts}]
  /\ NoGateConfig
  /\ Constructed

NextStream ==
  \/ StartMonitoring
  \/ \E c \in Connections : Connect(c)
  \/ \E c \in Connections : WaitDone(c)
  \/ \E c \in Connections : ReadChunk(c)
  \/ \E c \in Connections : StreamEnd(c)
  \/ \E c \in Connections : ReadError(c)
  \/ \E c \in Connections : DemuxStep(c)

SpecStream == InitStream /\ [][NextStream]_vars

InitFair ==
  /\ camera_ips \in {<<"10.0.0.1">>, <<"10.0.0.1", "10.0.0.2">>}
  /\ debug_enabled = FALSE
  /\ responses \in [Connections -> FairFeeds]
  /\ NoGateConfig
  /\ Constructed

\* The steps of the thread of connection c other than a connection attempt
\* and an iteration of the inner loop.
Thread(c) ==
  /\ c \in Connections
  /\ \/ Exit(c)
     \/ WaitDone(c)
     \/ ReadChunk(c)
     \/ StreamEnd(c)
     \/ ReadError(c)

\* Weak fairness of the connection attempt and of the iteration of the inner
\* loop, with the condition under which the step is possible written out: the
\* thread is at line 156 with the stop signal unset, or in the inner loop.
ThreadFairness(c) ==
  /\ WF_vars(Thread(c))
  /\ \/ []<>~(c \in Connections /\ pc[c] = "top" /\ ~stop_event[c])
     \/ []<><<c \in Connections /\ Connect(c)>>_vars
  /\ \/ []<>~(c \in Connections /\ pc[c] = "demux")
     \/ []<><<c \in Connections /\ DemuxStep(c)>>_vars

\* stop_monitoring, once called, goes on (lines 311-313).
Stopping == main_pc \in {"raised", "stopping"} /\ StopSignal

\* Every started thread is scheduled again and again, every network read and
\* every wait returns (timeouts of lines 173, 185, 286, 287), and the main
\* thread, once in stop_monitoring, runs on: join(timeout=10) returns.
Fairness ==
  /\ \A c \in AllCameras : ThreadFairness(c)
  /\ WF_vars(Stopping)
  /\ WF_vars(Join)

\* The life of the connections: the main thread starts them and at some time
\* stops them, the threads run.
NextLife ==
  \/ StartMonitoring
  \/ StopSignal
  \/ Join
  \/ \E c \in Connections : Exit(c)
  \/ \E c \in Connections : Connect(c)
  \/ \E c \in Connections : WaitDone(c)
  \/ \E c \in Connections : ReadChunk(c)
  \/ \E c \in Connections : StreamEnd(c)
  \/ \E c \in Connections : ReadError(c)
  \/ \E c \in Connections : DemuxStep(c)

SpecFair == InitFair /\ [][NextLife]_vars /\ Fairness

\* The gate checks: one or two cameras, every configuration of the first
\* camera's channel, and a thread that checks gates while the main thread
\* starts the connections and signals them to stop. What the connection
\* threads do between their start and their end is left out.
InitGate ==
  /\ camera_ips \in {<<"10.0.0.1">>, <<"10.0.0.1", "10.0.0.2">>}
  /\ debug_enabled = FALSE
  /\ responses = [c \in Connections |-> <<>>]
  /\ channels_section \in
       {None} \cup {Some(f) : f \in {g \in [Connections -> ChannelValues] :
                       \A i \in 2..Len(camera_ips) : g[camera_ips[i]] = Some("1")}}
  /\ gate_check \in GateChecks
  /\ Constructed

NextGate ==
  \/ StartMonitoring
  \/ StopSignal
  \/ \E c \in Connections : Exit(c)
  \/ CallIsGateAlarmActive
  \/ CheckGateAlarmForIp
  \/ GatePoll
  \/ GateReturnTrue
  \/ GateInactive
  \/ GateExpire

SpecGate == InitGate /\ [][NextGate]_vars

\* ------------------------------------------------------------------------
\* Vocabulary of the properties
\* ------------------------------------------------------------------------

\* The bytes of the connection's current response, in stream order.
Stream(c) == Concat(response[c].chunks)

\* The connection has read and demultiplexed every chunk of its response.
Drained(c) == pc[c] = "read" /\ wire[c] = <<>>

IsPart(e) == e.kind = "part"

IsText(e) == IsPart(e) /\ e.content_type = Some("text/plain")

IsImage(e) == IsPart(e) /\ e.content_type = Some("image/jpeg")

\* A text part with a recognized event code, and the mapping parsed from it.
Recognized(e) == IsText(e) /\ e.recognized

\* A text part with a recognized event code that is not taken for a heartbeat.
Pairable(e) == Recognized(e) /\ ~e.heartbeat

ParsedOf(e) == e.text[1]

\* The parts of a history, as (content type, body).
RECURSIVE PartsOf(_)
PartsOf(t) ==
  IF t = <<>> THEN <<>>
  ELSE (IF IsPart(Head(t))
        THEN <<[content_type |-> Head(t).content_type, body |-> Head(t).body]>>
        ELSE <<>>) \o PartsOf(Tail(t))

\* The events a history put on the queue, in order.
RECURSIVE PutsOf(_)
PutsOf(t) ==
  IF t = <<>> THEN <<>>
  ELSE (IF IsPart(Head(t)) /\ Head(t).put # None THEN <<Head(t).put[1]>> ELSE <<>>)
         \o PutsOf(Tail(t))

\* The events of one device in a sequence of events.
DeviceEvents(q, c) == SelectSeq(q, LAMBDA e : e.camera_ip = c)

IsPrefix(s, t) == Len(s) <= Len(t) /\ SubSeq(t, 1, Len(s)) = s

IsSuffix(s, t) == Len(s) <= Len(t) /\ SubSeq(t, Len(t) - Len(s) + 1, Len(t)) = s

\* m occurs in s with at least one byte of s on either side of it.
Straddles(s, m) == \E k \in 2..(Len(s) - Len(m)) : SubSeq(s, k, k + Len(m) - 1) = m

\* ------------------------------------------------------------------------
\* Properties of the demultiplexer and the correlator (SpecStream)
\* ------------------------------------------------------------------------

\* C1: chunk-size independence.  However the stream is cut into chunks, the
\* inner loop hands over the same ordered sequence of parts (content type,
\* body) as it does when the whole stream arrives as one chunk.
C1_ChunkSizeIndependence ==
  \A c \in Connections :
    Drained(c) =>
      PartsOf(trace[c])
        = DemuxPass(Stream(c), expected_boundary[c], None, debug_enabled, c, 0)

\* C2: a text/plain part with a recognized event code that is immediately
\* followed by an image/jpeg part results in exactly one DetectionEvent on the
\* queue, and its event_details are the mapping parsed from that text part.
C2_TextThenImageYieldsOneEvent ==
  \A c \in Connections :
    \A i \in 1..(Len(trace[c]) - 1) :
      (Recognized(trace[c][i]) /\ IsImage(trace[c][i + 1])) =>
        /\ trace[c][i].put = None
        /\ trace[c][i + 1].put # None
        /\ trace[c][i + 1].put[1].event_details = ParsedOf(trace[c][i])
        /\ trace[c][i + 1].put[1].image_data = trace[c][i + 1].body
        /\ Cardinality({k \in DOMAIN enqueued : enqueued[k] = trace[c][i + 1].put[1]}) = 1

\* The same holds of the text parts that are not taken for a heartbeat.
TextThenImage_NoHeartbeat ==
  \A c \in Connections :
    \A i \in 1..(Len(trace[c]) - 1) :
      (Pairable(trace[c][i]) /\ IsImage(trace[c][i + 1])) =>
        /\ trace[c][i].put = None
        /\ trace[c][i + 1].put # None
        /\ trace[c][i + 1].put[1].event_details = ParsedOf(trace[c][i])
        /\ trace[c][i + 1].put[1].image_data = trace[c][i + 1].body
        /\ Cardinality({k \in DOMAIN enqueued : enqueued[k] = trace[c][i + 1].put[1]}) = 1

\* C3: an event is put on the queue only for an image/jpeg part whose
\* immediately preceding part on the connection was a recognized (target
\* class, no heartbeat) text/plain part; an image part with no such predecessor
\* puts nothing on the queue and leaves the pending slot empty.
C3_EventOnlyForImageAfterRecognizedText ==
  \A c \in Connections :
    /\ DeviceEvents(enqueued, c) = PutsOf(trace[c])
    /\ \A i \in DOMAIN trace[c] :
         IsPart(trace[c][i]) =>
           /\ trace[c][i].put # None =>
                (IsImage(trace[c][i]) /\ i > 1 /\ Pairable(trace[c][i - 1]))
           /\ (IsImage(trace[c][i]) /\ ~(i > 1 /\ Pairable(trace[c][i - 1]))) =>
                (trace[c][i].put = None /\ trace[c][i].ced = None)

C3_Witness ==
  \E c \in Connections :
    \E i \in 2..Len(trace[c]) :
      /\ IsImage(trace[c][i])
      /\ IsText(trace[c][i - 1])
      /\ ~Pairable(trace[c][i - 1])
      /\ trace[c][i].put = None

\* C4: two consecutive recognized text parts followed by one image part
\* yield exactly one event, with the fields of the second text part; after
\* every text part the pending slot holds what that part alone gives.
C4_MostRecentTextWins ==
  \A c \in Connections :
    \A i \in DOMAIN trace[c] :
      /\ IsText(trace[c][i]) =>
           trace[c][i].ced = (IF Recognized(trace[c][i])
                              THEN Some(ParsedOf(trace[c][i])) ELSE None)
      /\ (/\ i + 2 <= Len(trace[c])
          /\ Recognized(trace[c][i])
          /\ Recognized(trace[c][i + 1])
          /\ IsImage(trace[c][i + 2])) =>
           /\ trace[c][i].put = None
           /\ trace[c][i + 1].put = None
           /\ trace[c][i + 2].put # None
           /\ trace[c][i + 2].put[1].event_details = ParsedOf(trace[c][i + 1])

\* The same holds of the text parts that are not taken for a heartbeat.
MostRecentTextWins_NoHeartbeat ==
  \A c \in Connections :
    \A i \in DOMAIN trace[c] :
      /\ IsText(trace[c][i]) =>
           trace[c][i].ced = (IF Pairable(trace[c][i])
                              THEN Some(ParsedOf(trace[c][i])) ELSE None)
      /\ (/\ i + 2 <= Len(trace[c])
          /\ Pairable(trace[c][i])
          /\ Pairable(trace[c][i + 1])
          /\ IsImage(trace[c][i + 2])) =>
           /\ trace[c][i].put = None
           /\ trace[c][i + 1].put = None
           /\ trace[c][i + 2].put # None
           /\ trace[c][i + 2].put[1].event_details = ParsedOf(trace[c][i + 1])

\* C5: the stream of the example (a text part with Content-Length 20 and body
\* Code=TrafficJunction, an image part with Content-Length 4, the final
\* marker) produces exactly one event whose event_details["Code"] is
\* TrafficJunction and whose image has length 4.
C5_ExampleYieldsOneEvent ==
  \A c \in Connections :
    (Drained(c) /\ Stream(c) = ExampleStream) =>
      /\ Len(enqueued) = 1
      /\ DictGet(enqueued[1].event_details, "Code", "") = TargetCode
      /\ Len(enqueued[1].image_data) = 4

\* C6: a final marker at a position where a boundary marker is expected
\* (directly after a part and the CRLF that ends its body included) resets the
\* buffer and the pending slot, so that a recognized text part before a final
\* marker never pairs with an image part after it: between the body of the
\* text part and the header block of the image part of an event there is no
\* final marker.
C6_NoPairingAcrossFinalMarker ==
  \A c \in Connections :
    \A i \in 2..Len(trace[c]) :
      (IsImage(trace[c][i]) /\ trace[c][i].put # None /\ IsPart(trace[c][i - 1])) =>
        ~Contains(SubSeq(Stream(c), trace[c][i - 1].bto + 1, trace[c][i].hfrom),
                  expected_boundary[c] \o "--")

\* C7: no part is completed with bytes from beyond a final marker: neither the
\* body nor the header block of a part has a final marker inside it with
\* bytes of the part on both sides.
C7_NoPartAcrossFinalMarker ==
  \A c \in Connections :
    \A i \in DOMAIN trace[c] :
      IsPart(trace[c][i]) =>
        /\ ~Straddles(trace[c][i].body, expected_boundary[c] \o "--")
        /\ ~Straddles(SubSeq(Stream(c), trace[c][i].hfrom + 1, trace[c][i].hto),
                      expected_boundary[c] \o "--")

\* C8: a pending event correlates with at most one image.  After an image
\* part has produced an event the pending slot is empty, so a second image
\* right after it produces none; and a connection has enqueued at most as many
\* events as it has processed recognized text parts, and at most as many as it
\* has processed image parts.
C8_AtMostOneImagePerPendingEvent ==
  \A c \in Connections :
    /\ \A i \in DOMAIN trace[c] :
         (IsImage(trace[c][i]) /\ trace[c][i].put # None) =>
           /\ trace[c][i].ced = None
           /\ (i < Len(trace[c]) /\ IsImage(trace[c][i + 1])) => trace[c][i + 1].put = None
    /\ Len(DeviceEvents(enqueued, c))
         <= Cardinality({i \in DOMAIN trace[c] : Pairable(trace[c][i])})
    /\ Len(DeviceEvents(enqueued, c))
         <= Cardinality({i \in DOMAIN trace[c] : Recognized(trace[c][i])})
    /\ Len(DeviceEvents(enqueued, c))
         <= Cardinality({i \in DOMAIN trace[c] : IsImage(trace[c][i])})

C8_Witness ==
  \E c \in Connections :
    \E i \in 1..(Len(trace[c]) - 1) :
      /\ IsImage(trace[c][i])
      /\ trace[c][i].put # None
      /\ IsImage(trace[c][i + 1])
      /\ trace[c][i + 1].put = None
      /\ Len(enqueued) = 1

\* ------------------------------------------------------------------------
\* Properties of the shared queue (Spec)
\* ------------------------------------------------------------------------

\* C9: every event put on the shared queue is returned by exactly one
\* get_new_detections call: at any moment the events enqueued so far are, in
\* order and each once, those already returned, those in the list of the call
\* in progress and those still queued; no two of them are the same event; with
\* the queue drained and no call in progress everything enqueued has been
\* returned, and nothing is returned that was not enqueued.
C9_EachEventConsumedOnce ==
  /\ enqueued = consumed \o detections \o detection_queue
  /\ \A i, j \in DOMAIN enqueued : enqueued[i] = enqueued[j] => i = j
  /\ (main_pc = "idle" /\ detection_queue = <<>>) => consumed = enqueued
  /\ \A i \in DOMAIN consumed : \E j \in DOMAIN enqueued : enqueued[j] = consumed[i]

C9_Witness ==
  /\ main_pc = "idle"
  /\ detection_queue = <<>>
  /\ Len(consumed) >= 3
  /\ \E i, j \in DOMAIN consumed : consumed[i].camera_ip # consumed[j].camera_ip

\* The events of each device reach the consumer in the order in which the
\* device's stream produced them.
PerDeviceOrder ==
  \A c \in Connections :
    /\ IsPrefix(DeviceEvents(consumed \o detections, c), DeviceEvents(enqueued, c))
    /\ IsSuffix(PutsOf(trace[c]), DeviceEvents(enqueued, c))
    /\ \A i \in 1..(Len(PutsOf(trace[c]))) :
         \E k \in 2..Len(trace[c]) :
           /\ IsPart(trace[c][k]) /\ trace[c][k].put = Some(PutsOf(trace[c])[i])
           /\ Len(PutsOf(SubSeq(trace[c], 1, k))) = i
           /\ Pairable(trace[c][k - 1])
           /\ trace[c][k].put[1].event_details = ParsedOf(trace[c][k - 1])

\* A step changes the queue only by appending an event at its tail or by
\* moving its head to the list of the get_new_detections call.
HeadOnly ==
  \/ /\ detection_queue # <<>>
     /\ detection_queue' = Tail(detection_queue)
     /\ detections' \in {<<Head(detection_queue)>>, Append(detections, Head(detection_queue))}
  \/ /\ Len(detection_queue') = Len(detection_queue) + 1
     /\ SubSeq(detection_queue', 1, Len(detection_queue)) = detection_queue
     /\ UNCHANGED detections
  \/ /\ UNCHANGED detection_queue
     /\ detections' \in {detections, <<>>}

\* C10: per-device order is preserved end to end, for any interleaving of the
\* connections: the events of one device appear in the concatenated results
\* of get_new_detections in the order in which their text events were parsed
\* from that device's stream, and get_new_detections removes only the head of
\* the queue, leaving the rest in order.
C10_PerDeviceOrderPreserved == []PerDeviceOrder /\ [][HeadOnly]_vars

C10_Witness ==
  /\ Len(camera_ips) = 2
  /\ \E c \in Connections :
       /\ Len(DeviceEvents(consumed, c)) >= 2
       /\ \E i \in DOMAIN consumed : consumed[i].camera_ip # c
       /\ \E i, j \in DOMAIN consumed :
            i < j /\ consumed[i].camera_ip = c /\ consumed[j].camera_ip = c
                  /\ \E k \in (i + 1)..(j - 1) : consumed[k].camera_ip # c

\* ------------------------------------------------------------------------
\* Properties of get_new_detections (Spec)
\* ------------------------------------------------------------------------

\* The blocking get is never found waiting past its timeout, and with the queue
\* still empty at the timeout nothing keeps the call from returning.
BoundedWait ==
  /\ (main_pc = "first" /\ timeout >= 0) => waited <= timeout
  /\ (main_pc = "first" /\ detection_queue = <<>> /\ waited = timeout) => ENABLED GetEmpty

\* A call that ends in its first get ends on an empty queue, at the end of the
\* timeout, with the empty list, and returns nothing to the consumer.
EmptyOnTimeout ==
  (main_pc = "first" /\ main_pc' = "idle") =>
    /\ detection_queue = <<>>
    /\ waited = timeout
    /\ detections' = <<>>
    /\ UNCHANGED <<consumed, detection_queue>>

\* No exception leaves the call.
NeverRaises == main_pc' # "raised"

\* An exception leaves the call only if its timeout is negative.
RaisesOnlyNegative ==
  (main_pc # "raised" /\ main_pc' = "raised") => (main_pc = "first" /\ timeout < 0)

\* C11: get_new_detections on a queue that stays empty for the whole timeout
\* returns the empty list when the timeout expires: the blocking get never
\* waits longer than the timeout, the call returns [] and takes nothing, and
\* no exception leaves it.
C11_EmptyListAtTimeout == []BoundedWait /\ [][EmptyOnTimeout /\ NeverRaises]_vars

\* C11, for timeouts that are durations: with timeout >= 0 the call on a queue
\* that stays empty returns the empty list when the timeout expires, never
\* waits longer and never raises; the only exception that leaves the call is
\* the ValueError for a negative timeout.
C11_EmptyListAtTimeout_NonNegative ==
  []BoundedWait /\ [][EmptyOnTimeout /\ RaisesOnlyNegative]_vars

C11_Witness ==
  /\ main_pc = "first"
  /\ timeout > 0
  /\ waited = timeout
  /\ detection_queue = <<>>

\* C12: get_new_detections returns at most max_items events, for every
\* max_items >= 0 and every queue content: the list it has built never holds
\* more than max_items events.
C12_AtMostMaxItems == main_pc = "more" => Len(detections) <= max_items

\* For max_items >= 1 the list never holds more than max_items events, and after
\* the first item only items already on the queue are taken: the call then
\* never waits.
AtMostMaxItems_Positive ==
  /\ (main_pc = "more" /\ max_items >= 1) => Len(detections) <= max_items
  /\ main_pc = "more" => (Len(detections) >= 1 /\ ENABLED (GetMore \/ GetReturn))

\* ------------------------------------------------------------------------
\* Properties of stop_monitoring (Spec, SpecFair)
\* ------------------------------------------------------------------------

\* C13: stop_monitoring sets the stop signal of every connection before it
\* begins to wait on any of them: while it is joining, or has joined, every
\* connection's stop signal is set.
C13_AllSignalledBeforeJoin ==
  main_pc \in {"joining", "done"} => \A c \in Connections : stop_event[c]

C13_Witness ==
  /\ main_pc = "joining"
  /\ main_i = 1
  /\ Len(camera_ips) = 2
  /\ \A c \in Connections : stop_event[c] /\ pc[c] # "stopped"

\* start_monitoring has started the threads.
Started == \A c \in Connections : pc[c] # "new"

\* The main thread waits once for each started connection, in order, and is
\* then done.
OneJoinEach ==
  (main_pc = "joining" /\ Started /\ <<main_pc, main_i>>' # <<main_pc, main_i>>) =>
    \/ main_i < Len(camera_ips) /\ main_i' = main_i + 1 /\ main_pc' = "joining"
    \/ main_i = Len(camera_ips) /\ main_pc' = "done"

InStopMonitoring == main_pc \in {"stopping", "joining"} /\ Started

\* C14: stop_monitoring always returns, also when started connection threads
\* never terminate: every join returns after its timeout, a thread that does
\* not end does not keep the others from being joined, and the call is over
\* after one wait per connection.
C14_StopMonitoringReturns ==
  /\ InStopMonitoring ~> (main_pc = "done")
  /\ [][OneJoinEach]_vars

\* stop_monitoring has returned while a thread is still in its demux loop.
C14_Witness ==
  /\ main_pc = "done"
  /\ \E c \in Connections : stop_event[c] /\ pc[c] = "demux" /\ Len(trace[c]) = MaxTrace

\* ------------------------------------------------------------------------
\* Properties of the life of a connection (SpecFair)
\* ------------------------------------------------------------------------

\* C15: run returns only if the stop signal of the connection has been set:
\* whatever the attempts, the responses and the streams were, a connection
\* whose stop signal is unset has not left its loop, and no step takes it out.
C15_StoppedOnlyBySignal ==
  /\ \A c \in Connections : pc[c] = "stopped" => stop_event[c]
  /\ \A c \in Connections : ~stop_event[c] => ~ENABLED Exit(c)

\* A connection has returned after an attempt that failed and a response that
\* it served to the end.
C15_Witness ==
  \E c \in Connections :
    /\ pc[c] = "stopped"
    /\ stop_event[c]
    /\ responses[c] = <<>>
    /\ response[c] # PlainScript
    /\ trace[c] # <<>>

\* The attempt of connection c has failed, its transport has broken, or the
\* server has sent the whole response and closed the stream.
Failed(c) ==
  /\ c \in Connections
  /\ \/ pc[c] = "wait"
     \/ pc[c] \in {"read", "demux"} /\ wire[c] = <<>>

\* Connection c is at the head of its loop (line 156).
AtTop(c) == c \in Connections /\ pc[c] = "top"

Signalled(c) == c \in Connections /\ stop_event[c]

\* The inner loop of connection c is in an iteration that leaves the buffer as
\* it found it and does not break.
Spins(c) ==
  /\ c \in Connections
  /\ pc[c] = "demux"
  /\ \E r \in {DemuxIter(buffer[c], expected_boundary[c], current_event_data[c],
                         debug_enabled, c, clock)} :
       ~r.brk /\ r.buffer = buffer[c]

\* C16: reconnection is unconditional: while the stop signal is unset, after
\* every failed attempt, transport error, exception or stream end, for any
\* stream, the connection comes back to a new connection attempt.
C16_ReconnectsEventually ==
  \A c \in AllCameras : (Failed(c) /\ ~Signalled(c)) ~> (AtTop(c) \/ Signalled(c))

\* The connection comes back to a new attempt unless its inner loop spins.
ReconnectsEventually_UnlessSpinning ==
  \A c \in AllCameras :
    (Failed(c) /\ ~Signalled(c)) ~> (AtTop(c) \/ Signalled(c) \/ Spins(c))

\* C17: once the stop signal of a started connection is set, the connection
\* reaches Stopped, from every state of its thread.
C17_StopsEventually ==
  \A c \in AllCameras :
    (Signalled(c) /\ pc[c] # "new") ~> (c \in Connections /\ pc[c] = "stopped")

\* Once signalled, the connection reaches Stopped unless its inner loop spins.
StopsEventually_UnlessSpinning ==
  \A c \in AllCameras :
    (Signalled(c) /\ pc[c] # "new") ~> ((c \in Connections /\ pc[c] = "stopped") \/ Spins(c))

\* ------------------------------------------------------------------------
\* Isolation of the connections (Spec)
\* ------------------------------------------------------------------------

\* What belongs to connection c alone: the position of its thread, the locals
\* of run, its response and what its camera has yet to serve.
Local(c) ==
  <<pc[c], wire[c], expected_boundary[c], buffer[c], current_event_data[c],
    wait_timeout[c], caught[c], response[c], responses[c], trace[c], base[c], lap[c]>>

\* A step that changes what belongs to one connection leaves what belongs to
\* every other connection as it was.
OwnStateOnly ==
  \A c, d \in Connections : (c # d /\ Local(c)' # Local(c)) => Local(d)' = Local(d)

\* A step of a thread changes nothing of the main thread and no stop signal;
\* of the queue it changes nothing, or appends one event of its own camera.
ThreadTouchesQueueOnly ==
  \A c \in Connections :
    (Local(c)' # Local(c) /\ main_pc # "new") =>
      /\ UNCHANGED <<main_vars, stop_event, env_vars>>
      /\ \/ UNCHANGED detection_queue
         \/ /\ Len(detection_queue') = Len(detection_queue) + 1
            /\ SubSeq(detection_queue', 1, Len(detection_queue)) = detection_queue
            /\ detection_queue'[Len(detection_queue')].camera_ip = c

\* Whatever the other connections do, a connection that waits can wake up, a
\* connection that reads can read on, and the consumer can take what is queued.
NeverHeldUp ==
  /\ \A c \in Connections : pc[c] = "wait" => ENABLED WaitDone(c)
  /\ \A c \in Connections : pc[c] = "read" => ENABLED (ReadChunk(c) \/ StreamEnd(c))
  /\ (main_pc = "first" /\ timeout >= 0 /\ detection_queue # <<>>) => ENABLED GetFirst

\* C18: the connections are isolated from each other: a connection that keeps
\* failing does not keep another one from connecting, streaming and enqueuing
\* its events, nor the consumer from draining them, and the detection queue is
\* the only state the connections share.
C18_DeviceIsolation ==
  []NeverHeldUp /\ [][OwnStateOnly /\ ThreadTouchesQueueOnly]_vars

\* One connection has never got a response and waits after a failed attempt,
\* while the event of the other one has reached the consumer.
C18_Witness ==
  /\ Len(camera_ips) = 2
  /\ \E c, d \in Connections :
       /\ c # d
       /\ pc[c] = "wait"
       /\ responses[c] = PairFeed
       /\ \E i \in DOMAIN consumed : consumed[i].camera_ip = d

\* ------------------------------------------------------------------------
\* The gate check (SpecGate)
\* ------------------------------------------------------------------------

\* No channel is configured for camera c: no section, or no key in it.
NotConfigured(c) == channels_section = None \/ channels_section[1][c] = None

\* The value configured for camera c is not an integer.
NotAnInteger(c) == ~NotConfigured(c) /\ ~ParseInt(channels_section[1][c][1]).ok

\* C19 : the channel index of a connection is -1 when no channel is configured
\* for its camera and when the configured value is not an integer, and is the
\* configured integer otherwise; and is_gate_alarm_active of a connection with
\* a negative index has returned False with no request sent and no sleep.
C19_NegativeIndexNoRequest ==
  /\ \A c \in Connections :
       IF NotConfigured(c) \/ NotAnInteger(c)
       THEN gate_alarm_channel_index[c] = -1
       ELSE gate_alarm_channel_index[c] = ParseInt(channels_section[1][c][1]).val
  /\ (gate_conn # None /\ gate_alarm_channel_index[gate_conn[1]] < 0) =>
       /\ gate_pc = "returned"
       /\ gate_result = Some(FALSE)
       /\ gate_requests = 0
       /\ gate_sleeps = 0

\* is_gate_alarm_active has returned for a camera whose configured value is
\* not an integer.
C19_Witness ==
  /\ gate_conn # None
  /\ NotAnInteger(gate_conn[1])
  /\ gate_pc = "returned"
  /\ gate_result = Some(FALSE)
  /\ gate_requests = 0

\* C20 : once a poll of a gate check has observed the bit set, the check sends
\* no further request and sleeps no more: its only step is to return True, and
\* it returns True only after such a poll.
C20_ShortCircuit ==
  /\ observed # None =>
       /\ gate_pc \in {"polled", "returned"}
       /\ gate_requests = observed[1].requests
       /\ gate_sleeps = observed[1].sleeps
       /\ gate_pc = "returned" => gate_result = Some(TRUE)
  /\ (gate_pc = "polled" /\ current_poll_is_active) =>
       /\ observed # None
       /\ ENABLED GateReturnTrue
       /\ ~ENABLED GateInactive
  /\ gate_result = Some(TRUE) => observed # None

\* A gate check has returned True on its second or a later poll, after a
\* sleep, with time for another sleep and poll left in the window.
C20_Witness ==
  /\ gate_pc = "returned"
  /\ gate_result = Some(TRUE)
  /\ gate_requests >= 2
  /\ gate_sleeps >= 1
  /\ interval > 0
  /\ elapsed + interval < duration

ReplyValues == 0..3

\* Reply r is a well-formed "result=<integer>" with the integer n.
WellFormed(r, n) == r.ok /\ Strip(r.text) = "result=" \o ToString(n)

\* Reply r starts with "result=<integer>", the integer n, and goes on, if at
\* all, with another "=".
FirstField(r, n) ==
  /\ r.ok
  /\ \/ Strip(r.text) = "result=" \o ToString(n)
     \/ StartsWith(Strip(r.text), "result=" \o ToString(n) \o "=")

\* n AND 2^i is non-zero.
BitSet(n, i) == \E q \in 0..n : \E low \in 0..((2 ^ i) - 1) : n = ((2 * q) + 1) * (2 ^ i) + low

\* A gate check with a channel index >= 0 is or was under way.
Checking == gate_conn # None /\ gate_alarm_channel_index[gate_conn[1]] >= 0

\* The state part of C22, for a notion Reading(r, i) of a reply that shows bit
\* i set: a poll counts as active exactly for such a reply, the call returns
\* True exactly when a poll has observed one, returns False only with the
\* window over, and with the window over it returns.
TrueIff(Reading(_, _)) ==
  /\ gate_pc = "polled" =>
       (current_poll_is_active <=>
          Reading(gate_resp[1], gate_alarm_channel_index[gate_conn[1]]))
  /\ (Checking /\ gate_pc = "returned") =>
       /\ gate_result = Some(TRUE) <=> observed # None
       /\ gate_result = Some(FALSE) => elapsed >= duration
  /\ (gate_pc = "loop" /\ elapsed >= duration) => ENABLED GateExpire

\* A poll starts only within the window, and only a poll that counts as active
\* is recorded as an observation of the bit.
PollsWithinWindow ==
  /\ gate_requests' = gate_requests + 1 => elapsed < duration
  /\ (observed' # observed /\ observed' # None) =>
       (gate_pc' = "polled" /\ current_poll_is_active')

SetReading(r, i) == \E n \in ReplyValues : WellFormed(r, n) /\ BitSet(n, i)

SetFirstField(r, i) == \E n \in ReplyValues : FirstField(r, n) /\ BitSet(n, i)

\* C22 : for a channel index i >= 0, is_gate_alarm_active returns True if and
\* only if a poll started within the window returned a well-formed
\* "result=<integer>" whose bit i is set, and returns False once the window is
\* over without one.
C22_TrueIffSetReading == []TrueIff(SetReading) /\ [][PollsWithinWindow]_vars

\* The same with the replies the code reads as showing the bit: those whose
\* text between the first "=" and the next one, or the end, is an integer with
\* bit i set.
TrueIffSetFirstField == []TrueIff(SetFirstField) /\ [][PollsWithinWindow]_vars

\* ------------------------------------------------------------------------
\* Reconnecting (Spec)
\* ------------------------------------------------------------------------

\* Connection c is in a Streaming phase: reading chunks or demultiplexing one.
InStreaming(c) == pc[c] \in {"read", "demux"}

\* C23 : a Streaming phase that ends with the stop signal unset, by a transport
\* error or by the end of the stream, is followed by a backoff wait: the
\* connection does not go from Streaming straight to the next attempt.
C23_BackoffBeforeReconnect ==
  [][\A c \in Connections :
       (InStreaming(c) /\ pc'[c] = "top") => stop_event[c]]_vars

\* The same for every end of a Streaming phase but the end of the stream: a
\* transport error is followed by the wait of line 286.
BackoffAfterTransportError ==
  [][\A c \in Connections :
       /\ (InStreaming(c) /\ pc'[c] = "top") =>
            (stop_event[c] \/ (pc[c] = "read" /\ wire[c] = <<>>))
       /\ (InStreaming(c) /\ pc'[c] = "wait") => pc[c] = "read"
       /\ (pc[c] = "wait" /\ pc'[c] # "wait") => pc'[c] = "top"]_vars

\* The attempt of connection c gets a 2xx response, the next of its camera.
Received(c) == pc[c] = "top" /\ responses'[c] # responses[c]

\* The step demultiplexes nothing for connection c and enqueues nothing.
NothingDemuxed(c) ==
  /\ buffer'[c] = buffer[c]
  /\ wire'[c] = wire[c]
  /\ trace'[c] = trace[c]
  /\ current_event_data'[c] = current_event_data[c]
  /\ detection_queue' = detection_queue
  /\ enqueued' = enqueued

\* The step leaves connection c in the fixed cooldown, with nothing demuxed.
Aborted(c) ==
  /\ pc'[c] = "wait"
  /\ wait_timeout'[c] = Cooldown
  /\ NothingDemuxed(c)

C25_SlotFateByEventCode ==
  \A c \in Connections : \A k \in DOMAIN trace[c] :
    IsText(trace[c][k]) =>
      IF trace[c][k].recognized
      THEN trace[c][k].ced = Some(ParsedOf(trace[c][k]))
      ELSE trace[c][k].ced = None

\* What the slot depends on: the word Heartbeat anywhere in the text of the
\* part clears it, and only without that word the event code decides.
SlotFateByWholeText ==
  \A c \in Connections : \A k \in DOMAIN trace[c] :
    IsText(trace[c][k]) =>
      IF trace[c][k].recognized /\ ~trace[c][k].heartbeat
      THEN trace[c][k].ced = Some(ParsedOf(trace[c][k]))
      ELSE trace[c][k].ced = None

\* A part that is neither text/plain nor image/jpeg.
IsOther(e) == IsPart(e) /\ ~IsText(e) /\ ~IsImage(e)

\* C26 : a part whose content type is neither text/plain nor image/jpeg, a
\* part without Content-Type included, leaves the pending slot empty and puts
\* nothing on the queue, and an image part that follows it yields no event,
\* also when a recognized text part came before it.
C26_OtherPartClearsSlot ==
  \A c \in Connections : \A k \in DOMAIN trace[c] :
    IsOther(trace[c][k]) =>
      /\ trace[c][k].ced = None
      /\ trace[c][k].put = None
      /\ (k + 1 \in DOMAIN trace[c] /\ IsImage(trace[c][k + 1])) =>
           trace[c][k + 1].put = None

\* A response is read to its end: a recognized text part, a part without
\* Content-Type, an image part, and nothing on the queue.
C26_Witness ==
  \E c \in Connections :
    /\ Drained(c)
    /\ Len(trace[c]) = 3
    /\ Pairable(trace[c][1])
    /\ trace[c][1].ced # None
    /\ IsOther(trace[c][2])
    /\ trace[c][2].content_type = None
    /\ IsImage(trace[c][3])
    /\ enqueued = <<>>

\* The first non-empty of the vehicle-specific plate field and the generic
\* detected-text field of a mapping.
FirstNonEmpty(d) ==
  IF DictGet(d, PlateKey, "") # "" THEN DictGet(d, PlateKey, "") ELSE DictGet(d, ObjectTextKey, "")

\* C27 : the plate_number of every DetectionEvent is the trimmed, upper-cased
\* value of the first non-empty of the plate field and the detected-text field
\* of the event it was made from.
C27_PlateNormalized ==
  \A k \in DOMAIN enqueued :
    enqueued[k].plate_number = Upper(Strip(FirstNonEmpty(enqueued[k].event_details)))

\* What the plate_number is: the plate field as parsed (trimmed), in the case
\* it came in, and UNKNOWN_PLATE for a mapping without that field.
PlateAsParsed ==
  \A k \in DOMAIN enqueued :
    /\ enqueued[k].plate_number = DictGet(enqueued[k].event_details, PlateKey, "UNKNOWN_PLATE")
    /\ enqueued[k].plate_number = Strip(enqueued[k].plate_number)

\* ------------------------------------------------------------------------
\* Incomplete parts (SpecStream)
\* ------------------------------------------------------------------------

\* Where the header block of the first part of buffer b starts, after the
\* marker m and its line end, and where the blank line after it is (-1: not
\* yet there).
HeaderStartOf(b, m) == PyFind(b, m, 0) + Len(m) + Len(CRLF)

HeaderEndOf(b, m) == PyFind(b, CRLFCRLF, HeaderStartOf(b, m))

HeadersOf(b, m) == ParseHeaders(PySlice(b, HeaderStartOf(b, m), HeaderEndOf(b, m)))

\* Buffer b holds the marker of a part, not the final marker.
PartBegun(b, m) == PyFind(b, m, 0) # -1 /\ ~StartsWith(b, m \o "--")

\* The header block of the part is not yet terminated by a blank line.
HeadersCut(b, m) == PartBegun(b, m) /\ HeaderEndOf(b, m) = -1

\* Content-Length is present and fewer body bytes are buffered than it requires.
BodyShort(b, m) ==
  /\ PartBegun(b, m)
  /\ HeaderEndOf(b, m) # -1
  /\ HeadersOf(b, m).part_content_length # None
  /\ Len(b) < HeaderEndOf(b, m) + Len(CRLFCRLF) + HeadersOf(b, m).part_content_length[1]

\* There is no Content-Length and no marker after the header block yet.
NoNextMarker(b, m) ==
  /\ PartBegun(b, m)
  /\ HeaderEndOf(b, m) # -1
  /\ HeadersOf(b, m).part_content_length = None
  /\ PyFind(b, m, HeaderEndOf(b, m) + Len(CRLFCRLF)) = -1

\* The step of connection c consumes nothing: the buffer and the pending slot
\* are as before, nothing is enqueued, and the inner loop has ended.
ConsumesNothing(c) ==
  /\ buffer'[c] = buffer[c]
  /\ current_event_data'[c] = current_event_data[c]
  /\ enqueued' = enqueued
  /\ detection_queue' = detection_queue
  /\ trace'[c] = trace[c]
  /\ pc'[c] # pc[c] => pc'[c] \in {"read", "top"}

\* C28 : an iteration of the inner loop on a buffer whose first part cannot be
\* completed (header block not terminated, body shorter than Content-Length,
\* or no Content-Length and no next marker) consumes nothing.
C28_IncompletePartConsumesNothing ==
  [][\A c \in Connections :
       (/\ pc[c] = "demux"
        /\ \/ HeadersCut(buffer[c], expected_boundary[c])
           \/ BodyShort(buffer[c], expected_boundary[c])
           \/ NoNextMarker(buffer[c], expected_boundary[c]))
       => ConsumesNothing(c)]_vars

\* The same without the case of the header block when DEBUG logging is off.
IncompletePartConsumesNothing_UnlessHeadersCutAtInfo ==
  [][\A c \in Connections :
       (/\ pc[c] = "demux"
        /\ \/ HeadersCut(buffer[c], expected_boundary[c]) /\ debug_enabled
           \/ BodyShort(buffer[c], expected_boundary[c])
           \/ NoNextMarker(buffer[c], expected_boundary[c]))
       => ConsumesNothing(c)]_vars

\* ------------------------------------------------------------------------
\* Malformed Content-Length (SpecStream)
\* ------------------------------------------------------------------------

\* The header block of entry e of the trace of c, as the camera sent it, and
\* the text after the colon of its last Content-Length line (None: no such line).
HeaderBlock(c, e) == PySlice(Stream(c), e.hfrom, e.hto)

LengthText(c, e) ==
  LET ls == SelectSeq(Split(HeaderBlock(c, e), CRLF),
                      LAMBDA l : LowerStartsWith(l, "content-length:"))
  IN  IF ls = <<>> THEN None ELSE Some(AfterFirst(ls[Len(ls)], ":"))

\* v is the decimal text of a length: an integer that is not negative.
IsLength(v) == ParseInt(v).ok /\ ParseInt(v).val >= 0

\* v is not even the text of an integer.
NotAnInt(v) == ~ParseInt(v).ok

\* The body a part without Content-Length has: the bytes from the end of its
\* header block to the next marker.
ScanBody(c, e) ==
  PySlice(Stream(c), e.bfrom, PyFind(Stream(c), Marker(Token), e.bfrom))

HandledAsAbsent(Bad(_)) ==
  \A c \in Connections : \A i \in 1..Len(trace[c]) :
    (/\ trace[c][i].kind = "part"
     /\ LengthText(c, trace[c][i]) # None
     /\ Bad(LengthText(c, trace[c][i])[1]))
    => /\ trace[c][i].content_length = None
       /\ trace[c][i].body = ScanBody(c, trace[c][i])

Malformed(v) == ~IsLength(v)

\* C29 : a part whose Content-Length value is not a valid non-negative integer
\* is handled like a part without Content-Length: its body is the bytes up to
\* the next marker.
C29_MalformedLengthIsAbsent == HandledAsAbsent(Malformed)

\* The same for the values int() rejects.
UnparsableLengthIsAbsent == HandledAsAbsent(NotAnInt)

UnparsableLengthSeen ==
  \E c \in Connections : \E i \in 1..Len(trace[c]) :
    /\ trace[c][i].kind = "part"
    /\ LengthText(c, trace[c][i]) # None
    /\ NotAnInt(LengthText(c, trace[c][i])[1])
    /\ trace[c][i].body = Jpeg \o CRLF

\* ------------------------------------------------------------------------
\* Leading garbage (SpecStream)
\* ------------------------------------------------------------------------

\* The inner loop on one buffer (lines 193-276): the parts it hands over, the
\* events it enqueues, and the buffer, slot and clock it ends with.
RECURSIVE InnerLoop(_, _, _, _, _, _)
InnerLoop(buf, expected, ced, debug, camera_ip, now) ==
  LET Go(r) ==
        LET parts == IF r.part = None THEN <<>>
                     ELSE <<[content_type |-> r.part[1].content_type,
                             body         |-> r.part[1].body]>>
            puts  == IF r.put = None THEN <<>> ELSE <<r.put[1]>>
            then  == IF r.put = None THEN now ELSE now + 1
            rest  == InnerLoop(r.buffer, expected, r.ced, debug, camera_ip, then)
        IN  IF r.brk
            THEN [parts |-> parts, puts |-> puts, buffer |-> r.buffer,
                  ced |-> r.ced, now |-> then]
            ELSE [rest EXCEPT !.parts = parts \o @, !.puts = puts \o @]
  IN  Go(DemuxIter(buf, expected, ced, debug, camera_ip, now))

\* The loop over the chunks of a response (lines 189-276), started with an
\* empty buffer and an empty slot: what it hands over and enqueues.
RECURSIVE ChunkLoop(_, _, _, _, _)
ChunkLoop(chunks, acc, expected, debug, camera_ip) ==
  IF chunks = <<>> THEN acc
  ELSE LET r == InnerLoop(acc.buffer \o Head(chunks), expected, acc.ced, debug,
                          camera_ip, acc.now)
       IN  ChunkLoop(Tail(chunks),
                     [r EXCEPT !.parts = acc.parts \o @, !.puts = acc.puts \o @],
                     expected, debug, camera_ip)

Demuxed(chunks, expected, debug, camera_ip) ==
  ChunkLoop(chunks, [parts |-> <<>>, puts |-> <<>>, buffer |-> "", ced |-> None, now |-> 0],
            expected, debug, camera_ip)

\* Bytes that hold no boundary marker.
Garbage == Fragment(Token, "G")

\* The response of c starts with the garbage; and its chunks without it.
GarbageFirst(c) ==
  /\ response[c].chunks # <<>>
  /\ StartsWith(response[c].chunks[1], Garbage)

WithoutGarbage(chunks) ==
  IF chunks[1] = Garbage THEN Tail(chunks)
  ELSE <<PySliceFrom(chunks[1], Len(Garbage))>> \o Tail(chunks)

GarbageDiscarded(c) ==
  LET alone == Demuxed(WithoutGarbage(response[c].chunks), expected_boundary[c],
                       debug_enabled, c)
  IN  /\ PartsOf(trace[c]) = alone.parts
      /\ PutsOf(trace[c]) = alone.puts
      /\ \A i \in 1..Len(trace[c]) :
           IsPart(trace[c][i]) =>
             /\ trace[c][i].hfrom >= Len(Garbage)
             /\ trace[c][i].bfrom >= Len(Garbage)

\* C30 : leading garbage is discarded.  A stream that arrives after bytes
\* without a boundary marker gives the same parts and the same events as the
\* stream alone, and no byte of the garbage is in a part.
C30_LeadingGarbageDiscarded ==
  \A c \in Connections : (Drained(c) /\ GarbageFirst(c)) => GarbageDiscarded(c)

\* The same for the streams that do not start with the final marker.
LeadingGarbageDiscarded_UnlessFinalFirst ==
  \A c \in Connections :
    (/\ Drained(c)
     /\ GarbageFirst(c)
     /\ ~StartsWith(PySliceFrom(Stream(c), Len(Garbage)), FinalMarker(Token)))
    => GarbageDiscarded(c)

GarbageThenEvent ==
  \E c \in Connections :
    /\ Drained(c)
    /\ GarbageFirst(c)
    /\ ~StartsWith(PySliceFrom(Stream(c), Len(Garbage)), FinalMarker(Token))
    /\ PutsOf(trace[c]) # <<>>

\* ------------------------------------------------------------------------
\* The buffer between chunks (SpecStream)
\* ------------------------------------------------------------------------

\* Buffer b holds a whole part: a marker that is not the final marker, a
\* header block ended by a blank line, and the body the headers ask for (the
\* bytes Content-Length counts, or else the bytes up to the next marker).
HoldsCompletePart(b, m) ==
  /\ PartBegun(b, m)
  /\ HeaderEndOf(b, m) # -1
  /\ IF HeadersOf(b, m).part_content_length # None
     THEN Len(b) >= HeaderEndOf(b, m) + Len(CRLFCRLF) + HeadersOf(b, m).part_content_length[1]
     ELSE PyFind(b, m, HeaderEndOf(b, m) + Len(CRLFCRLF)) # -1

\* The same at any marker of the buffer, not only the first.
HoldsCompletePartAnywhere(b, m) ==
  \E k \in 0..(Len(b) - 1) :
    /\ StartsWith(PySliceFrom(b, k), m)
    /\ HoldsCompletePart(PySliceFrom(b, k), m)

\* The inner loop of c has ended and c is about to read the next chunk.
PassFinished(c) == pc[c] = "read"

\* The parts of the history of c are in stream order.
InStreamOrder(c) ==
  \A i \in 1..(Len(trace[c]) - 1) :
    (IsPart(trace[c][i]) /\ IsPart(trace[c][i + 1])) =>
      trace[c][i].bfrom < trace[c][i + 1].bfrom

\* C31 : when the inner loop has ended, the buffer it retains holds no whole
\* part, and the parts it handed over are in stream order.
C31_NoCompletePartRetained ==
  \A c \in Connections :
    PassFinished(c) =>
      /\ ~HoldsCompletePartAnywhere(buffer[c], expected_boundary[c])
      /\ InStreamOrder(c)

\* The same for the part at the first marker of the buffer, the one the loop
\* would take next: it is never a whole part.
NoCompletePartAtFirstMarker ==
  \A c \in Connections :
    PassFinished(c) =>
      /\ ~HoldsCompletePart(buffer[c], expected_boundary[c])
      /\ InStreamOrder(c)

\* One chunk held several parts and all were handed over in its pass.
SeveralPartsInOnePass ==
  \E c \in Connections :
    /\ PassFinished(c)
    /\ Len(response[c].chunks) = 1
    /\ wire[c] = <<>>
    /\ Len(PartsOf(trace[c])) >= 3
    /\ buffer[c] # ""

\* ------------------------------------------------------------------------
\* The pace of the gate polls (SpecGate)
\* ------------------------------------------------------------------------

\* A call of is_gate_alarm_active is in its polling loop or has left it.
InGateCall == gate_pc \in {"loop", "polled", "returned", "raised"}

\* C32 : every poll after the first comes one interval after the poll before
\* it, so a call makes at most duration / interval + 1 polls.
C32_PollsSeparatedByInterval ==
  InGateCall =>
    /\ poll_attempt <= gate_sleeps + 1
    /\ interval > 0 => (poll_attempt - 1) * interval <= duration

\* The polls are one interval apart as long as a whole interval fits in what
\* is left of the window: a poll that no sleep follows is in the last interval.
PollsSeparatedWhileIntervalFits ==
  (gate_pc = "loop" /\ poll_attempt > gate_sleeps) =>
    \/ poll_attempt = 0
    \/ elapsed + interval >= duration

\* A poll follows another without a sleep between them.
PollWithoutSleep == gate_pc = "polled" /\ poll_attempt > gate_sleeps + 1

\* ------------------------------------------------------------------------
\* The capture-time field (SpecStream)
\* ------------------------------------------------------------------------

\* The capture-time field of a parsed text part is missing, or is no number,
\* or is a number no datetime can hold.
FaultyCaptureTime(d) == PtsKey \notin DOMAIN d \/ d[PtsKey] \in {"abc", "1e20"}

EmitsPart(c) ==
  /\ pc[c] = "demux"
  /\ Len(trace'[c]) = Len(trace[c]) + 1
  /\ IsPart(trace'[c][Len(trace'[c])])

\* C34 : every iteration of the inner loop that hands over a part leaves a
\* strictly shorter buffer, whatever the headers of the part say, so the loop
\* ends for every chunk.
C34_EmittingIterationShortensBuffer ==
  [][\A c \in Connections : EmitsPart(c) => Len(buffer'[c]) < Len(buffer[c])]_vars

\* The same for the parts whose Content-Length is not negative.
ShortensBuffer_UnlessNegativeLength ==
  [][\A c \in Connections :
       (/\ EmitsPart(c)
        /\ \/ trace'[c][Len(trace'[c])].content_length = None
           \/ trace'[c][Len(trace'[c])].content_length[1] >= 0)
       => Len(buffer'[c]) < Len(buffer[c])]_vars

\* ------------------------------------------------------------------------
\* Bodies delimited by Content-Length (SpecStream)
\* ------------------------------------------------------------------------

\* Entry e of the history of c has a valid Content-Length.
HasLength(e) == IsPart(e) /\ e.content_length # None /\ e.content_length[1] >= 0

\* The body of e is the n bytes after the blank line that ends its header block.
BodyIsTheCountedBytes(c, e) ==
  /\ PySlice(Stream(c), e.hto, e.hto + Len(CRLFCRLF)) = CRLFCRLF
  /\ e.bfrom = e.hto + Len(CRLFCRLF)
  /\ e.body = PySlice(Stream(c), e.bfrom, e.bfrom + e.content_length[1])
  /\ Len(e.body) = e.content_length[1]

\* C35 : the body of a part with a valid Content-Length n is exactly the n
\* bytes that follow its header block, marker or no marker among them, and
\* whether or not the next marker has arrived.
C35_BodyIsContentLengthBytes ==
  \A c \in Connections : \A i \in 1..Len(trace[c]) :
    HasLength(trace[c][i]) => BodyIsTheCountedBytes(c, trace[c][i])

\* The same for the parts taken when the blank line after their header block
\* had been found (the body then starts right after it), or with DEBUG
\* logging on.
BodyIsContentLengthBytes_UnlessHeadersCutAtInfo ==
  \A c \in Connections : \A i \in 1..Len(trace[c]) :
    (/\ HasLength(trace[c][i])
     /\ \/ debug_enabled
        \/ trace[c][i].bfrom = trace[c][i].hto + Len(CRLFCRLF))
    => BodyIsTheCountedBytes(c, trace[c][i])

\* A body with the marker in it was handed over whole, before the next
\* marker had arrived.
BodyWithMarkerSeen ==
  \E c \in Connections : \E i \in 1..Len(trace[c]) :
    /\ HasLength(trace[c][i])
    /\ Contains(trace[c][i].body, Marker(Token))
    /\ PyFind(buffer[c], Marker(Token), 0) = -1
    /\ pc[c] = "read"

\* ------------------------------------------------------------------------
\* A new connection starts afresh (Spec)
\* ------------------------------------------------------------------------

\* The step starts the chunk loop of a new connection of c.
NewConnection(c) == pc[c] = "top" /\ pc'[c] = "read"

\* C36 : every new connection starts with an empty buffer and an empty slot,
\* so the text part of every event is a part of the connection its image
\* came on.
C36_NewConnectionStartsEmpty ==
  /\ [][\A c \in Connections :
          NewConnection(c) => buffer'[c] = "" /\ current_event_data'[c] = None]_vars
  /\ [](\A c \in Connections : \A i \in 1..Len(trace[c]) :
          (IsPart(trace[c][i]) /\ trace[c][i].put # None) =>
            /\ i > 1
            /\ Recognized(trace[c][i - 1])
            /\ trace[c][i].put[1].event_details = ParsedOf(trace[c][i - 1]))

\* A connection that ended with a pending text part and a half-received part
\* was followed by one whose image part paired with nothing.
C36_Witness ==
  \E c \in Connections :
    /\ responses[c] = <<>>
    /\ response[c] = FragmentScript(<<"I">>)
    /\ pc[c] = "read"
    /\ wire[c] = <<>>
    /\ Len(trace[c]) = 1
    /\ IsImage(trace[c][1])
    /\ trace[c][1].put = None
    /\ trace[c][1].body = Jpeg
    /\ DeviceEvents(enqueued, c) = <<>>

\* ------------------------------------------------------------------------
\* check_gate_alarm_for_ip (SpecGate)
\* ------------------------------------------------------------------------

\* The step is a call of check_gate_alarm_for_ip.
CheckCalled == GateFree /\ gate_vars' # gate_vars /\ target_ip' # None

\* The step is one of a gate check started by check_gate_alarm_for_ip.
CheckStep == gate_vars' # gate_vars /\ (target_ip # None \/ target_ip' # None)

\* At the call, the address is that of no connection, or the thread of its
\* connection is not running.
NotRunning(ip) == ip \notin Connections \/ ~IsAlive(ip)

\* C37 : check_gate_alarm_for_ip returns False without a request when the
\* address matches no connection or the thread of the matching connection is
\* not running; it polls only for a running connection; and it changes
\* neither the detection queue nor the state of any connection.
C37_CheckOnlyRunningConnections ==
  /\ [][CheckCalled =>
          /\ NotRunning(target_ip'[1]) =>
               /\ gate_pc' = "returned"
               /\ gate_result' = Some(FALSE)
               /\ gate_requests' = 0
          /\ gate_pc' = "loop" =>
               /\ ~NotRunning(target_ip'[1])
               /\ gate_conn' = target_ip']_vars
  /\ [][CheckStep => UNCHANGED <<conn_vars, detection_queue, enqueued>>]_vars
  /\ []((target_ip # None /\ gate_requests > 0) =>
          /\ target_ip[1] \in Connections
          /\ gate_conn = target_ip)

\* A check of a connection that is configured with a channel, and whose thread
\* has ended, returned False without a request.
C37_Witness ==
  /\ gate_pc = "returned"
  /\ target_ip # None
  /\ target_ip[1] \in Connections
  /\ pc[target_ip[1]] = "stopped"
  /\ gate_alarm_channel_index[target_ip[1]] >= 0
  /\ gate_conn = None
  /\ gate_result = Some(FALSE)
  /\ gate_requests = 0

\* ------------------------------------------------------------------------
\* stop_monitoring in every state of the coordinator (Spec)
\* ------------------------------------------------------------------------

\* The step belongs to the second call of stop_monitoring.
SecondStopStep ==
  /\ main_pc \in {"done", "stopping2", "joining2"}
  /\ <<main_pc, main_i>>' # <<main_pc, main_i>>

StopSignalStays == \A c \in Connections : stop_event[c] => stop_event'[c]

\* C38 : stop_monitoring never raises, whether start_monitoring was called or
\* not and whether stop_monitoring was called before or not; a second call
\* changes no connection, and a stop signal that is set stays set.
C38_StopMonitoringNeverRaises ==
  /\ [](main_pc # "join_raised")
  /\ [][SecondStopStep => UNCHANGED <<pc, stop_event>>]_vars
  /\ [][StopSignalStays]_vars

\* The same, but for the call on threads that were never started.
StopMonitoringRaisesOnlyUnstarted ==
  /\ [](main_pc = "join_raised" => \A c \in Connections : pc[c] = "new")
  /\ [](main_pc \in {"done", "done2"} => Started)
  /\ [][SecondStopStep => UNCHANGED <<pc, stop_event>>]_vars
  /\ [][StopSignalStays]_vars

\* The second call of stop_monitoring has returned.
SecondStopReturned == main_pc = "done2" /\ \E c \in Connections : pc[c] # "stopped"

====
